---------------------------- MODULE Spec2Model ----------------------------
(***************************************************************************)
(* A model of the fetch layer of the F1 data scripts                       *)
(* (src/scripts/f1_data_fetcher.py and its older twin                      *)
(* src/scripts/get_ergast_api_data.py):                                    *)
(*                                                                         *)
(*   - fetch_single_race_results under its tenacity @retry decorator,      *)
(*   - fetch_paginated_data (drivers / circuits),                          *)
(*   - fetch_race_results, the batched asyncio.gather driver,              *)
(*   - the per-race-row loops fetch_all_driver_standings,                  *)
(*     fetch_all_qualifiers and get_ergast_api_data.fetch_race_results,    *)
(*   - the per-year loops fetch_race_info and get_race_data with the race  *)
(*     parsers parse_race_data / parse_race_response,                      *)
(*   - the request URLs built at every call site,                          *)
(*   - the paginated loops of get_ergast_api_data.py,                      *)
(*   - get_wiki_circuits with its local-file fallback,                     *)
(*   - utilities.expand_json_cols and utilities.load_and_process_csv,      *)
(*   - get_weather_api_data.fetch_historic_weather.                        *)
(*                                                                         *)
(* Each operation has its own initial condition and next-state relation;   *)
(* the variables of the operations that are not running stay at their      *)
(* idle values.                                                            *)
(***************************************************************************)
EXTENDS Integers, Sequences, FiniteSets, TLC

VARIABLES
    op,              \* which operation this behaviour runs
    \* ---- fetch_single_race_results under @retry -------------------------
    rpc,             \* "idle" | "attempt" | "sleep" | "returned" | "raised"
    attempt_number,  \* tenacity's retry_state.attempt_number
    response,        \* what the server answered to the latest attempt
    outcome,         \* retry_state.outcome: what the latest attempt gave
    surfaced,        \* what the decorated call returned / raised to its caller
    upcoming_sleep,  \* the wait chosen by wait_exponential for the next sleep
    now,             \* seconds since the call started
    attemptAt,       \* start time of every attempt made
    latency,         \* time every completed attempt's request took
    slept,           \* the waits slept between the attempts
    \* ---- fetch_paginated_data -------------------------------------------
    ppc,             \* "idle" | "loop" | "returned" | "raised"
    endpoint,        \* the endpoint argument
    schema,          \* under which keys the server's pages hold their items
    total,           \* the server's number of items (MRData.total)
    startOffset,     \* the offset argument
    offset,          \* the loop's offset
    limit,           \* the limit argument
    all_data,        \* the items accumulated so far
    requests,        \* page requests issued so far
    requestedAt,     \* the offset of every page request issued, in order
    pageFailure,     \* how the fetch of a page failed, "none" while none did
    perr,            \* the exception fetch_paginated_data let through
    \* ---- fetch_race_results (batched) -----------------------------------
    bpc,             \* "idle" | "loop" | "gather" | "sleep" | "returned"
    batch_size,      \* the batch_size argument
    tasks,           \* the coroutines created: their (season, round), in order
    i,               \* the batch loop's index into tasks (0-based)
    tstate,          \* per task: "created" | "scheduled" | "attempt" | "sleep" | "done"
    tattempt,        \* per task: tenacity's attempt_number while it runs, else 0
    tout,            \* per task: what the task returned / raised
    startedAt,       \* per task: when its first request was issued
    doneAt,          \* per task: when it completed
    all_results,     \* the tasks whose frames were kept, in order
    bnow,            \* seconds of throttling slept since the call
    \* ---- fetch_all_driver_standings / fetch_all_qualifiers ---------------
    lpc,             \* "idle" | "loop" | "flatten" | "returned" | "raised"
    race_rows,       \* race_data_df: the (season, round) of its rows
    row,             \* the row iterrows() is at (1-based)
    rowResp,         \* what the server answered for every row requested
    all_top10_standings, \* standings: the StandingsLists appended, per row
    all_qualifications,  \* qualifiers: the rows appended
    race_standings,  \* standings: the flattened table
    race_dfs,        \* get_ergast_api_data.fetch_race_results: the frames appended
    lerr,            \* the exception the operation let through
    \* ---- fetch_race_info / get_ergast_api_data.get_race_data --------------
    ypc,             \* "idle" | "loop" | "returned" | "raised"
    years,           \* the years of the range, in order
    ynext,           \* the position in years of the year at hand (1-based)
    yearResp,        \* what the server answered for every year requested
    all_races,       \* the parsed races collected so far
    yerr,            \* the exception the operation let through
    \* ---- utilities.expand_json_cols / utilities.load_and_process_csv ------
    upc,             \* "idle" | "loop" | "returned" | "raised"
    df,              \* the rows of the frame: every row maps a column to its cell
    json_cols,       \* expand_json_cols: the json_cols argument
    jnext,           \* expand_json_cols: the position in json_cols of the column at hand
    other_cols,      \* expand_json_cols: the columns of the frame being built
    out_rows,        \* the number of rows of the frame being built
    id_columns,      \* load_and_process_csv: the id_columns argument
    race_id,         \* load_and_process_csv: the race_id column, per row
    uerr,            \* the exception the operation let through
    \* ---- the request URLs built at every call site -----------------------
    site,            \* the function that builds the URL
    u_season,        \* its season / year (0 where it has none)
    u_round,         \* its round (0 where it has none)
    u_endpoint,      \* fetch_paginated_data: the endpoint argument
    u_limit,         \* the page size (0 where it has none)
    u_offset,        \* the page offset (0 where it has none)
    url,             \* the URL built, "" before
    \* ---- get_ergast_api_data.fetch_all_f1_drivers / fetch_all_f1_circuits --
    epc,             \* "idle" | "loop" | "hung" | "returned" | "raised"
    e_endpoint,      \* "drivers" | "circuits": which of the two functions runs
    e_schema,        \* under which keys the server's pages hold their items
    e_total,         \* the server's number of items
    page,            \* the loop's page counter
    e_all,           \* all_drivers / all_circuits: the items accumulated
    e_requests,      \* requests issued so far
    e_failure,       \* the answer that was no page, "none" while all were
    e_err,           \* the exception the function let through
    \* ---- get_wiki_circuits ------------------------------------------------
    wpc,             \* "idle" | "fetch" | "parse" | "save" | "local" | "returned" | "raised"
    w_page,          \* what the page at url holds
    w_disk,          \* whether local_file can be written
    w_local,         \* the local file as the call found it
    w_written,       \* whether the call has written the local file
    html_content,    \* what fetch_wiki_circuits returned, "unset" before
    wiki_circuits,   \* what parse_wiki_html_to_dataframe returned, "unset" before
    w_result,        \* what get_wiki_circuits returned, "unset" before
    w_err,           \* the exception get_wiki_circuits let through
    \* ---- get_weather_api_data.fetch_historic_weather ----------------------
    xpc,             \* "idle" | "loop" | "returned"
    race_df,         \* format_race_data(pd.read_csv(...)): its rows
    wrow,            \* the row iterrows() is at (1-based)
    weather_requests,\* the (lat, long, date) of every weather request issued
    weather_infos,   \* the weather_info dicts appended: the rows they are of
    x_caught,        \* per row handled: the exception "except Exception" caught
    \* ---- the seasons' calendars, for fetch_race_results -------------------
    rounds_held      \* per season: how many rounds it has, << >> when not drawn

retryVars == <<rpc, attempt_number, response, outcome, surfaced, upcoming_sleep, now,
               attemptAt, latency, slept>>

pagedVars == <<ppc, endpoint, schema, total, startOffset, offset, limit,
               all_data, requests, requestedAt, pageFailure, perr>>

batchVars == <<bpc, batch_size, tasks, i, tstate, tattempt, tout, startedAt,
               doneAt, all_results, bnow>>

rowVars == <<lpc, race_rows, row, rowResp, all_top10_standings,
             all_qualifications, race_standings, race_dfs, lerr>>

yearVars == <<ypc, years, ynext, yearResp, all_races, yerr>>

tableVars == <<upc, df, json_cols, jnext, other_cols, out_rows, id_columns,
               race_id, uerr>>

urlVars == <<site, u_season, u_round, u_endpoint, u_limit, u_offset, url>>

ergVars == <<epc, e_endpoint, e_schema, e_total, page, e_all, e_requests,
             e_failure, e_err>>

wikiVars == <<wpc, w_page, w_disk, w_local, w_written, html_content,
              wiki_circuits, w_result, w_err>>

weatherVars == <<xpc, race_df, wrow, weather_requests, weather_infos, x_caught>>

calendarVars == <<rounds_held>>

fetchVars == <<retryVars, pagedVars, batchVars, rowVars, yearVars>>

\* The variables of the operations modelled apart from the fetch loops.
auxVars == <<tableVars, urlVars, ergVars, wikiVars, weatherVars, calendarVars>>

\* What the actions of one of these operations leave alone.
notTable == <<fetchVars, urlVars, ergVars, wikiVars, weatherVars, calendarVars>>

notUrl == <<fetchVars, tableVars, ergVars, wikiVars, weatherVars, calendarVars>>

notErg == <<retryVars, batchVars, rowVars, yearVars, tableVars, urlVars, wikiVars, weatherVars, calendarVars>>

notWiki == <<fetchVars, tableVars, urlVars, ergVars, weatherVars, calendarVars>>

notWeather == <<fetchVars, tableVars, urlVars, ergVars, wikiVars, calendarVars>>

vars == <<op, retryVars, pagedVars, batchVars, rowVars, yearVars, auxVars>>

----------------------------------------------------------------------------
(* Helpers                                                                 *)

Max(a, b) == IF a >= b THEN a ELSE b

Min(a, b) == IF a <= b THEN a ELSE b

RECURSIVE Pow(_, _)
Pow(b, e) == IF e <= 0 THEN 1 ELSE b * Pow(b, e - 1)

Last(s) == s[Len(s)]

\* An outcome of an attempt or of a call: a value or an exception, the
\* exception possibly chained to a cause (raise ... from ...).
Result(v) == [kind |-> "result", val |-> v, cause |-> "none"]

Raised(e) == [kind |-> "exception", val |-> e, cause |-> "none"]

RaisedFrom(e, c) == [kind |-> "exception", val |-> e, cause |-> c]

NoOutcome == [kind |-> "none", val |-> "none", cause |-> "none"]

----------------------------------------------------------------------------
(* fetch_single_race_results and its @retry decorator                      *)

\* Bound: the longest time one request may take, in seconds (aiohttp's
\* default total timeout is far larger).
MaxLatency == 5

\* stop_after_attempt(5)
MAX_ATTEMPTS == 5

\* wait_exponential(multiplier=1, min=4, max=30)
WAIT_MULTIPLIER == 1

WAIT_MIN == 4

WAIT_MAX == 30

\* What the server can answer to one GET of {season}/{round}/results.json,
\* as far as the code below tells the cases apart.
Responses ==
    { "ok",                  \* 200, Races = [race with Results]
      "no_races",            \* 200, Races = []
      "http_503",            \* status 503
      "server_disconnected", \* aiohttp.ServerDisconnectedError
      "http_error",          \* another status >= 400
      "client_error",        \* another aiohttp.ClientError (connection refused, ...)
      "bad_json",            \* 200, body is not JSON
      "missing_key",         \* 200, JSON without MRData/RaceTable/Races/Results
      "timeout" }            \* asyncio.TimeoutError from the session

\* The two exception classes of the module.
TransientErrors == {"ServerUnavailableError", "ServerDisconnectedError"}

\* One run of the body of fetch_single_race_results.
fetch_single_attempt(resp) ==
    CASE resp = "http_503"            -> Raised("ServerUnavailableError")
      [] resp = "server_disconnected" -> RaisedFrom("ServerDisconnectedError",
                                                    "aiohttp.ServerDisconnectedError")
      [] resp = "http_error"          -> Raised("aiohttp.ClientResponseError")
      [] resp = "client_error"        -> Raised("aiohttp.ClientError")
      [] resp = "bad_json"            -> Raised("JSONDecodeError")
      [] resp = "missing_key"         -> Raised("KeyError")
      [] resp = "timeout"             -> Raised("asyncio.TimeoutError")
      [] resp = "ok"                  -> Result("Results")
      [] resp = "no_races"            -> Result("EmptyFrame")

\* retry=retry_if_exception_type((ServerUnavailableError, ServerDisconnectedError))
RetryOnAnyException(o) == o.kind = "exception"

retry_if_exception_type(o) ==
    o.kind = "exception" /\ o.val \in TransientErrors

\* stop=stop_after_attempt(5)
StopAfterSixth(n) == n > MAX_ATTEMPTS

stop_after_attempt(n) == n >= MAX_ATTEMPTS

\* wait=wait_exponential(multiplier=1, min=4, max=30), exp_base 2
WaitWithoutMin(n) == Min(WAIT_MULTIPLIER * Pow(2, n - 1), WAIT_MAX)

WaitMultiplierFour(n) ==
    Max(Max(0, WAIT_MIN), Min(4 * Pow(2, n - 1), WAIT_MAX))

wait_exponential(n) ==
    Max(Max(0, WAIT_MIN), Min(WAIT_MULTIPLIER * Pow(2, n - 1), WAIT_MAX))

\* What the decorator surfaces once it stops: no reraise=True is given, so
\* tenacity raises RetryError from the last attempt's exception.
retry_exhausted(o) == RaisedFrom("tenacity.RetryError", o.val)

StartRetry ==
    /\ rpc = "attempt"
    /\ attempt_number = 1
    /\ response = "none"
    /\ outcome = NoOutcome
    /\ surfaced = NoOutcome
    /\ upcoming_sleep = 0
    /\ now = 0
    /\ attemptAt = <<0>>
    /\ latency = <<>>
    /\ slept = <<>>

IdleRetry ==
    /\ rpc = "idle"
    /\ attempt_number = 0
    /\ response = "none"
    /\ outcome = NoOutcome
    /\ surfaced = NoOutcome
    /\ upcoming_sleep = 0
    /\ now = 0
    /\ attemptAt = <<>>
    /\ latency = <<>>
    /\ slept = <<>>

\* The request of the current attempt ends after d seconds with resp; the
\* decorator then returns, raises, or schedules a sleep.
AttemptCompletes(resp, d) ==
    /\ op = "fetch_single_race_results"
    /\ rpc = "attempt"
    /\ now' = now + d
    /\ latency' = Append(latency, d)
    /\ response' = resp
    /\ outcome' = fetch_single_attempt(resp)
    /\ IF ~retry_if_exception_type(outcome')
       THEN /\ rpc' = IF outcome'.kind = "result" THEN "returned" ELSE "raised"
            /\ surfaced' = outcome'
            /\ UNCHANGED <<attempt_number, upcoming_sleep>>
       ELSE IF stop_after_attempt(attempt_number)
       THEN /\ rpc' = "raised"
            /\ surfaced' = retry_exhausted(outcome')
            /\ UNCHANGED <<attempt_number, upcoming_sleep>>
       ELSE /\ rpc' = "sleep"
            /\ upcoming_sleep' = wait_exponential(attempt_number)
            /\ attempt_number' = attempt_number + 1
            /\ UNCHANGED surfaced
    /\ UNCHANGED <<op, attemptAt, slept, pagedVars, batchVars, rowVars, yearVars, auxVars>>

\* The sleep between two attempts ends and the next attempt starts.
SleepElapses ==
    /\ op = "fetch_single_race_results"
    /\ rpc = "sleep"
    /\ now' = now + upcoming_sleep
    /\ slept' = Append(slept, upcoming_sleep)
    /\ attemptAt' = Append(attemptAt, now')
    /\ rpc' = "attempt"
    /\ UNCHANGED <<op, attempt_number, response, outcome, surfaced, upcoming_sleep,
                   latency, pagedVars, batchVars, rowVars, yearVars, auxVars>>

NextRetry ==
    \/ \E resp \in Responses, d \in 0..MaxLatency : AttemptCompletes(resp, d)
    \/ SleepElapses

----------------------------------------------------------------------------
(* fetch_paginated_data, behind fetch_all_f1_drivers / fetch_all_f1_circuits *)

\* Bounds on the inputs drawn: the server's item count, the offset and
\* limit arguments, and the page requests of one call (only a limit of 0
\* can reach the last one: with limit >= 1 a call makes at most
\* MaxTotal + 1 requests).
MaxTotal == 4

MaxOffset == 3

MaxLimit == 3

MaxRequests == 6

\* The endpoints the two callers pass.
Endpoints == {"drivers", "circuits"}

\* str.capitalize() on the endpoints: first letter upper case, rest lower.
Capitalize(ep) ==
    CASE ep = "drivers"  -> "Drivers"
      [] ep = "circuits" -> "Circuits"

\* The keys under MRData from which line 166-168 reads a page's items.
ErgastTableKey(ep) ==
    CASE ep = "drivers"  -> "DriverTable"
      [] ep = "circuits" -> "CircuitTable"

TableKey(ep) == Capitalize(ep) \o "Table"

ErgastListKey(ep) ==
    CASE ep = "drivers"  -> "Drivers"
      [] ep = "circuits" -> "Circuits"

ListKey(ep) == Capitalize(ep) \o "s"

\* Where a server keeps a page's items: "as_read" is a server that answers
\* with the very keys fetch_paginated_data reads, "ergast" one that answers
\* with the keys the other implementation (get_ergast_api_data.py:184, 219)
\* reads.
Schemas == {"as_read", "ergast"}

ServerTableKey(sch, ep) ==
    IF sch = "ergast" THEN ErgastTableKey(ep) ELSE TableKey(ep)

ServerListKey(sch, ep) ==
    IF sch = "ergast" THEN ErgastListKey(ep) ELSE ListKey(ep)

\* What can come back for one page request.
PageResponses ==
    { "ok",           \* 200, JSON page with items and total
      "http_503",     \* status 503: raise_for_status raises HTTPError
      "http_error",   \* another status >= 400: raise_for_status raises HTTPError
      "conn_error",   \* requests.ConnectionError
      "timeout",      \* requests.Timeout after 10 s
      "bad_json",     \* 200, body is not JSON: requests.JSONDecodeError
      "no_total",     \* 200, JSON page with items but without MRData.total
      "bad_total" }   \* 200, JSON page whose MRData.total is no integer

\* safe_request: the exception it raises for a response, "none" if it
\* returns the parsed body. All of them are requests.RequestException
\* (JSONDecodeError since requests 2.27), logged and re-raised.
safe_request(resp) ==
    CASE resp = "http_503"   -> "requests.HTTPError"
      [] resp = "http_error" -> "requests.HTTPError"
      [] resp = "conn_error" -> "requests.ConnectionError"
      [] resp = "timeout"    -> "requests.Timeout"
      [] resp = "bad_json"   -> "requests.JSONDecodeError"
      [] OTHER               -> "none"

RequestExceptions ==
    {"requests.HTTPError", "requests.ConnectionError", "requests.Timeout",
     "requests.JSONDecodeError"}

\* except requests.RequestException (line 174)
CaughtByPagination(e) == e \in RequestExceptions

\* The server's slice items[o : o + l] of its items 1..tot.
PageItems(tot, o, l) ==
    LET n == Max(0, Min(o + l, tot) - o)
    IN  [j \in 1..n |-> o + j]

\* Lines 166-168: whether the body holds the keys the items are read from
\* (a KeyError otherwise).
ItemsKeysFound(sch, ep) ==
    /\ ServerTableKey(sch, ep) = TableKey(ep)
    /\ ServerListKey(sch, ep) = ListKey(ep)

\* Line 170, int(data["MRData"]["total"]): the exception raised, "none" if
\* none.
TotalError(resp) ==
    CASE resp = "no_total"  -> "KeyError"
      [] resp = "bad_total" -> "ValueError"
      [] OTHER              -> "none"

\* The loop's exit test (line 172), on the offset already advanced.
StopsOnePageEarly(o, tot) == o + limit >= tot

PaginationDone(o, tot) == o >= tot

StartPaged ==
    /\ ppc = "loop"
    /\ endpoint \in Endpoints
    /\ schema \in Schemas
    /\ total \in 0..MaxTotal
    /\ startOffset \in 0..MaxOffset
    /\ offset = startOffset
    /\ limit \in 0..MaxLimit
    /\ all_data = <<>>
    /\ requests = 0
    /\ requestedAt = <<>>
    /\ pageFailure = "none"
    /\ perr = "none"

IdlePaged ==
    /\ ppc = "idle"
    /\ endpoint = "none"
    /\ schema = "none"
    /\ total = 0
    /\ startOffset = 0
    /\ offset = 0
    /\ limit = 0
    /\ all_data = <<>>
    /\ requests = 0
    /\ requestedAt = <<>>
    /\ pageFailure = "none"
    /\ perr = "none"

\* One turn of the while loop: request the page at offset, extend all_data,
\* advance the offset, and break, continue or let an exception through.
FetchPage(resp) ==
    /\ op = "fetch_paginated_data"
    /\ ppc = "loop"
    /\ requests < MaxRequests
    /\ requests' = requests + 1
    /\ requestedAt' = Append(requestedAt, offset)
    /\ LET e1 == safe_request(resp)
           e2 == IF ItemsKeysFound(schema, endpoint) THEN "none" ELSE "KeyError"
           e3 == TotalError(resp)
           e  == IF e1 # "none" THEN e1 ELSE IF e2 # "none" THEN e2 ELSE e3
       IN  /\ pageFailure' = IF e = "none" THEN "none"
                             ELSE IF e1 = "none" /\ e2 # "none" THEN "missing_key"
                             ELSE resp
           /\ all_data' = IF e1 = "none" /\ e2 = "none"
                          THEN all_data \o PageItems(total, offset, limit)
                          ELSE all_data
           /\ IF e = "none"
              THEN /\ offset' = offset + limit
                   /\ ppc' = IF PaginationDone(offset', total) THEN "returned" ELSE "loop"
                   /\ perr' = "none"
              ELSE /\ offset' = offset
                   /\ ppc' = IF CaughtByPagination(e) THEN "returned" ELSE "raised"
                   /\ perr' = IF CaughtByPagination(e) THEN "none" ELSE e
    /\ UNCHANGED <<op, endpoint, schema, total, startOffset, limit, retryVars,
                   batchVars, rowVars, yearVars, auxVars>>

NextPaged == \E resp \in PageResponses : FetchPage(resp)

----------------------------------------------------------------------------
(* fetch_race_results: the batched asyncio.gather driver                   *)

\* Bound standing for the 20 of range(1, 21): the rounds requested per
\* season.
LastRound == 2

\* Bound on the batch_size argument drawn.
MaxBatch == 2

\* asyncio.sleep(5)
THROTTLE_S == 5

\* The (start_year, end_year) arguments drawn: no season, one, two.
YearRanges == {<<2021, 2020>>, <<2021, 2021>>, <<2021, 2022>>}

\* What the server answers to a request of a batch.
BatchResponses == {"ok", "http_503", "http_error", "missing_key"}

\* The list comprehension of lines 139-143, in its order.
TaskList(start_year, end_year) ==
    [k \in 1..((end_year + 1 - start_year) * LastRound) |->
        [season |-> start_year + ((k - 1) \div LastRound),
         round  |-> ((k - 1) % LastRound) + 1]]

NumTasks == Len(tasks)

\* tasks[i : i + batch_size], as 1-based positions.
BatchOneTooMany(from) == {k \in 1..NumTasks : from < k /\ k <= from + batch_size + 1}

Batch(from) == {k \in 1..NumTasks : from < k /\ k <= from + batch_size}

\* [r for r in results if not isinstance(r, Exception)], results being in
\* the order of the batch.
RECURSIVE KeptFrom(_, _)
KeptFrom(k, upto) ==
    IF k > upto THEN <<>>
    ELSE (IF tout[k].kind = "result" THEN <<k>> ELSE <<>>) \o KeptFrom(k + 1, upto)

Kept(from) == KeptFrom(from + 1, Min(from + batch_size, NumTasks))

\* The sleep that follows a batch, in seconds.
ThrottleInMillis == THROTTLE_S \div 1000

Throttle == THROTTLE_S

StartBatch ==
    /\ bpc = "loop"
    /\ batch_size \in 1..MaxBatch
    /\ \E yr \in YearRanges : tasks = TaskList(yr[1], yr[2])
    /\ i = 0
    /\ tstate = [k \in 1..NumTasks |-> "created"]
    /\ tattempt = [k \in 1..NumTasks |-> 0]
    /\ tout = [k \in 1..NumTasks |-> NoOutcome]
    /\ startedAt = [k \in 1..NumTasks |-> -1]
    /\ doneAt = [k \in 1..NumTasks |-> -1]
    /\ all_results = <<>>
    /\ bnow = 0

IdleBatch ==
    /\ bpc = "idle"
    /\ batch_size = 0
    /\ tasks = <<>>
    /\ i = 0
    /\ tstate = <<>>
    /\ tattempt = <<>>
    /\ tout = <<>>
    /\ startedAt = <<>>
    /\ doneAt = <<>>
    /\ all_results = <<>>
    /\ bnow = 0

\* The head of the for loop: leave it when the tasks are used up, else
\* hand the next batch to asyncio.gather, which schedules every coroutine
\* of the batch.
LoopHead ==
    /\ op = "fetch_race_results"
    /\ bpc = "loop"
    /\ IF i < NumTasks
       THEN /\ bpc' = "gather"
            /\ tstate' = [k \in 1..NumTasks |->
                            IF k \in Batch(i) THEN "scheduled" ELSE tstate[k]]
       ELSE /\ bpc' = "returned"
            /\ UNCHANGED tstate
    /\ UNCHANGED <<op, batch_size, tasks, i, tattempt, tout, startedAt, doneAt,
                   all_results, bnow, retryVars, pagedVars, rowVars, yearVars, auxVars>>

\* The event loop runs a scheduled task up to its first request.
TaskStart(k) ==
    /\ op = "fetch_race_results"
    /\ bpc = "gather"
    /\ tstate[k] = "scheduled"
    /\ tstate' = [tstate EXCEPT ![k] = "attempt"]
    /\ tattempt' = [tattempt EXCEPT ![k] = 1]
    /\ startedAt' = [startedAt EXCEPT ![k] = bnow]
    /\ UNCHANGED <<op, bpc, batch_size, tasks, i, tout, doneAt, all_results, bnow,
                   retryVars, pagedVars, rowVars, yearVars, auxVars>>

\* The request of task k is answered; the task's @retry decorator ends the
\* task or puts it to sleep.
TaskResponse(k, resp) ==
    /\ op = "fetch_race_results"
    /\ bpc = "gather"
    /\ tstate[k] = "attempt"
    /\ LET o == fetch_single_attempt(resp)
       IN  IF ~retry_if_exception_type(o)
           THEN /\ tstate' = [tstate EXCEPT ![k] = "done"]
                /\ tout' = [tout EXCEPT ![k] = o]
                /\ doneAt' = [doneAt EXCEPT ![k] = bnow]
                /\ tattempt' = [tattempt EXCEPT ![k] = 0]
           ELSE IF stop_after_attempt(tattempt[k])
           THEN /\ tstate' = [tstate EXCEPT ![k] = "done"]
                /\ tout' = [tout EXCEPT ![k] = retry_exhausted(o)]
                /\ doneAt' = [doneAt EXCEPT ![k] = bnow]
                /\ tattempt' = [tattempt EXCEPT ![k] = 0]
           ELSE /\ tstate' = [tstate EXCEPT ![k] = "sleep"]
                /\ tattempt' = [tattempt EXCEPT ![k] = @ + 1]
                /\ UNCHANGED <<tout, doneAt>>
    /\ UNCHANGED <<op, bpc, batch_size, tasks, i, startedAt, all_results, bnow,
                   retryVars, pagedVars, rowVars, yearVars, auxVars>>

\* The backoff sleep of task k ends and it issues its next request.
TaskWakes(k) ==
    /\ op = "fetch_race_results"
    /\ bpc = "gather"
    /\ tstate[k] = "sleep"
    /\ tstate' = [tstate EXCEPT ![k] = "attempt"]
    /\ UNCHANGED <<op, bpc, batch_size, tasks, i, tattempt, tout, startedAt, doneAt,
                   all_results, bnow, retryVars, pagedVars, rowVars, yearVars, auxVars>>

\* gather(..., return_exceptions=True) returns once every task of the
\* batch is done; the results that are no exceptions are kept.
GatherReturns ==
    /\ op = "fetch_race_results"
    /\ bpc = "gather"
    /\ \A k \in Batch(i) : tstate[k] = "done"
    /\ all_results' = all_results \o Kept(i)
    /\ bpc' = "sleep"
    /\ UNCHANGED <<op, batch_size, tasks, i, tstate, tattempt, tout, startedAt,
                   doneAt, bnow, retryVars, pagedVars, rowVars, yearVars, auxVars>>

\* await asyncio.sleep(5) ends; the loop moves on by batch_size.
ThrottleElapses ==
    /\ op = "fetch_race_results"
    /\ bpc = "sleep"
    /\ bnow' = bnow + Throttle
    /\ i' = i + batch_size
    /\ bpc' = "loop"
    /\ UNCHANGED <<op, batch_size, tasks, tstate, tattempt, tout, startedAt, doneAt,
                   all_results, retryVars, pagedVars, rowVars, yearVars, auxVars>>

NextBatch ==
    \/ LoopHead
    \/ \E k \in 1..NumTasks : TaskStart(k)
    \/ \E k \in 1..NumTasks, resp \in BatchResponses : TaskResponse(k, resp)
    \/ \E k \in 1..NumTasks : TaskWakes(k)
    \/ GatherReturns
    \/ ThrottleElapses

----------------------------------------------------------------------------
(* fetch_all_driver_standings and fetch_all_qualifiers: one request per    *)
(* row of race_data_df                                                     *)

\* Bounds: the rows of race_data_df, and the entries of one round's
\* DriverStandings / QualifyingResults list.
MaxRows == 3

MaxEntries == 2

\* The first m races, LastRound rounds a season.
RaceRows(m) ==
    [k \in 1..m |-> [season |-> 2021 + ((k - 1) \div LastRound),
                     round  |-> ((k - 1) % LastRound) + 1]]

\* A parsed 200 answer for one round: a list of n entries (DriverStandings
\* of the round's one StandingsList, or QualifyingResults of its race),
\* the entry at position bad lacking an expected key (bad = 0: none does).
OkAnswers ==
    {[kind |-> "ok", n |-> n, bad |-> b] : n \in 1..MaxEntries, b \in 0..MaxEntries}

Answer(kind) == [kind |-> kind, n |-> 0, bad |-> 0]

\* What can come back for the request of one row.
StandingsResponses ==
    {[kind |-> "ok", n |-> n, bad |-> 0] : n \in 0..MaxEntries}
        \cup {Answer(f) : f \in {"http_error", "conn_error", "timeout", "bad_json",
                                 "missing_key"}}

QualifyingResponses ==
    {a \in OkAnswers : a.bad <= a.n}
        \cup {Answer(f) : f \in {"no_races", "http_error", "conn_error", "timeout",
                                 "bad_json", "missing_key"}}

\* The exception the try body of a row raises, "none" if none: from
\* safe_request, from the lookups under MRData, or from the lookups in an
\* entry.
RowError(a) ==
    IF safe_request(a.kind) # "none" THEN safe_request(a.kind)
    ELSE IF a.kind = "missing_key" THEN "KeyError"
    ELSE IF a.kind = "ok" /\ a.bad # 0 THEN "KeyError"
    ELSE "none"

\* except (requests.RequestException, KeyError) (lines 230, 288)
CaughtPerRow(e) == e \in RequestExceptions \cup {"KeyError"}

\* The entries of row r appended before the loop over them ends or raises.
EntriesAppended(r, a) ==
    LET m == IF a.kind # "ok" THEN 0 ELSE IF a.bad = 0 THEN a.n ELSE a.bad - 1
    IN  [e \in 1..m |-> [row |-> r, entry |-> e]]

\* The keys of the objects of a driverStandings answer, as the code and
\* src/scripts/test.py:58-75 name them: of a StandingsList, of an entry of
\* its DriverStandings, of an entry's Driver.
StandingsListKeys == {"season", "round", "DriverStandings"}

DriverStandingsKeys == {"position", "points", "wins", "Driver", "Constructors"}

DriverKeys == {"driverId", "code", "givenName", "familyName"}

\* column.apply(pd.Series) on a column of lists: one column per position.
ConstructorsColumns == {"0"}

\* The labels of the drop of lines 246-248.
DroppedColumns == {"DriverStandings", "Driver", "Constructors", "StandingsList"}

\* The columns of race_standings before the drop: those of line 235-237
\* (the keys of the StandingsList objects; the frame's one column
\* "StandingsList" is the Series expanded, it is not kept), then those each
\* join adds.
ColumnsBeforeDrop ==
    StandingsListKeys \cup DriverStandingsKeys \cup DriverKeys \cup ConstructorsColumns

\* DataFrame.drop(labels, axis=1): a KeyError unless every label is a column.
DropRaises(cols, labels) == ~(labels \subseteq cols)

\* The columns of the frame the drop returns.
ColumnsAfterDrop == ColumnsBeforeDrop \ DroppedColumns

\* Line 238, explode: one row per entry of each DriverStandings list, and
\* for an empty list one row holding NaN (entry 0).
RECURSIVE Explode(_)
Explode(lists) ==
    IF lists = <<>> THEN <<>>
    ELSE (IF Head(lists).n = 0
          THEN <<[row |-> Head(lists).row, entry |-> 0]>>
          ELSE [e \in 1..Head(lists).n |-> [row |-> Head(lists).row, entry |-> e]])
            \o Explode(Tail(lists))

StartRows ==
    /\ lpc = "loop"
    /\ \E m \in 0..MaxRows : race_rows = RaceRows(m)
    /\ row = 1
    /\ rowResp = <<>>
    /\ all_top10_standings = <<>>
    /\ all_qualifications = <<>>
    /\ race_standings = <<>>
    /\ race_dfs = <<>>
    /\ lerr = "none"

IdleRows ==
    /\ lpc = "idle"
    /\ race_rows = <<>>
    /\ row = 0
    /\ rowResp = <<>>
    /\ all_top10_standings = <<>>
    /\ all_qualifications = <<>>
    /\ race_standings = <<>>
    /\ race_dfs = <<>>
    /\ lerr = "none"

\* fetch_all_driver_standings: the loop body for the row at hand.
StandingsRow(a) ==
    /\ op = "fetch_all_driver_standings"
    /\ lpc = "loop"
    /\ row <= Len(race_rows)
    /\ rowResp' = Append(rowResp, a)
    /\ LET e == RowError(a)
       IN  IF e = "none"
           THEN /\ all_top10_standings' =
                       Append(all_top10_standings, [row |-> row, n |-> a.n])
                /\ row' = row + 1
                /\ UNCHANGED <<lpc, lerr>>
           ELSE IF CaughtPerRow(e)
           THEN /\ row' = row + 1
                /\ UNCHANGED <<lpc, lerr, all_top10_standings>>
           ELSE /\ lpc' = "raised"
                /\ lerr' = e
                /\ UNCHANGED <<row, all_top10_standings>>
    /\ UNCHANGED <<op, race_rows, race_dfs, all_qualifications, race_standings,
                   retryVars, pagedVars, batchVars, yearVars, auxVars>>

\* fetch_all_driver_standings: the rows are used up; flatten what was
\* collected (lines 235-249). With nothing collected there is no
\* DriverStandings column to explode; otherwise the frame is exploded and
\* joined, and the drop decides whether it is returned.
StandingsFlatten ==
    /\ op = "fetch_all_driver_standings"
    /\ lpc = "loop"
    /\ row > Len(race_rows)
    /\ IF all_top10_standings = <<>>
       THEN /\ lpc' = "raised"
            /\ lerr' = "pandas error"
            /\ UNCHANGED race_standings
       ELSE IF DropRaises(ColumnsBeforeDrop, DroppedColumns)
       THEN /\ lpc' = "raised"
            /\ lerr' = "KeyError"
            /\ UNCHANGED race_standings
       ELSE /\ lpc' = "returned"
            /\ race_standings' = Explode(all_top10_standings)
            /\ UNCHANGED lerr
    /\ UNCHANGED <<op, race_rows, race_dfs, row, rowResp, all_top10_standings,
                   all_qualifications, retryVars, pagedVars, batchVars, yearVars, auxVars>>

\* fetch_all_qualifiers: the loop body for the row at hand.
QualifiersRow(a) ==
    /\ op = "fetch_all_qualifiers"
    /\ lpc = "loop"
    /\ row <= Len(race_rows)
    /\ rowResp' = Append(rowResp, a)
    /\ LET e == RowError(a)
       IN  /\ all_qualifications' =
                  IF safe_request(a.kind) = "none"
                  THEN all_qualifications \o EntriesAppended(row, a)
                  ELSE all_qualifications
           /\ IF e = "none" \/ CaughtPerRow(e)
              THEN /\ row' = row + 1
                   /\ UNCHANGED <<lpc, lerr>>
              ELSE /\ lpc' = "raised"
                   /\ lerr' = e
                   /\ UNCHANGED row
    /\ UNCHANGED <<op, race_rows, race_dfs, all_top10_standings, race_standings,
                   retryVars, pagedVars, batchVars, yearVars, auxVars>>

\* fetch_all_qualifiers: the rows are used up; return the frame.
QualifiersReturn ==
    /\ op = "fetch_all_qualifiers"
    /\ lpc = "loop"
    /\ row > Len(race_rows)
    /\ lpc' = "returned"
    /\ UNCHANGED <<op, race_rows, race_dfs, row, rowResp, all_top10_standings,
                   all_qualifications, race_standings, lerr,
                   retryVars, pagedVars, batchVars, yearVars, auxVars>>

NextRows ==
    \/ \E a \in StandingsResponses : StandingsRow(a)
    \/ StandingsFlatten
    \/ \E a \in QualifyingResponses : QualifiersRow(a)
    \/ QualifiersReturn

----------------------------------------------------------------------------
(* The frames of race results: f1_data_fetcher.fetch_single_race_results   *)
(* and get_ergast_api_data.fetch_race_results                              *)

\* The keys of an entry of a race's Results list, as upstream sends them.
\* season and round are keys of the race object that holds the list
\* (f1_data_fetcher.py:68-69), not of its entries.
ResultEntryKeys ==
    {"number", "position", "points", "Driver", "Constructor", "grid", "laps",
     "status"}

\* pd.DataFrame(races[0]["Results"]) (f1_data_fetcher.py:118): one column
\* per key of the entries.
ResultsFrameColumns == ResultEntryKeys

\* get_ergast_api_data.py:147-149: the same frame, then the columns season
\* and round assigned.
ErgastFrameColumns == ResultEntryKeys \cup {"season", "round"}

\* What can come back for the request of one row in
\* get_ergast_api_data.fetch_race_results.
ErgastResultsResponses ==
    {a \in OkAnswers : a.bad = 0}
        \cup {Answer(f) : f \in {"no_races", "http_error", "conn_error", "timeout",
                                 "bad_json", "missing_key"}}

\* The exception the body of a row raises there, "none" if none:
\* requests.get (line 141) and response.json() (line 144) stand outside
\* the try, a status other than 200 is only printed, Races[0] on an empty
\* list is an IndexError.
ErgastRowError(a) ==
    CASE a.kind = "conn_error"  -> "requests.ConnectionError"
      [] a.kind = "timeout"     -> "requests.Timeout"
      [] a.kind = "http_error"  -> "none"
      [] a.kind = "bad_json"    -> "requests.JSONDecodeError"
      [] a.kind = "missing_key" -> "KeyError"
      [] a.kind = "no_races"    -> "IndexError"
      [] OTHER                  -> "none"

\* except KeyError (line 151), around lines 146-150 only.
ErgastCaughtPerRow(e) == e = "KeyError"

\* get_ergast_api_data.fetch_race_results: the loop body for the row at
\* hand.
ErgastResultsRow(a) ==
    /\ op = "get_ergast_api_data.fetch_race_results"
    /\ lpc = "loop"
    /\ row <= Len(race_rows)
    /\ rowResp' = Append(rowResp, a)
    /\ LET e == ErgastRowError(a)
       IN  IF a.kind = "ok"
           THEN /\ race_dfs' = Append(race_dfs,
                                      [row |-> row, n |-> a.n,
                                       season |-> race_rows[row].season,
                                       round |-> race_rows[row].round])
                /\ row' = row + 1
                /\ UNCHANGED <<lpc, lerr>>
           ELSE IF e = "none" \/ ErgastCaughtPerRow(e)
           THEN /\ row' = row + 1
                /\ UNCHANGED <<lpc, lerr, race_dfs>>
           ELSE /\ lpc' = "raised"
                /\ lerr' = e
                /\ UNCHANGED <<row, race_dfs>>
    /\ UNCHANGED <<op, race_rows, all_top10_standings, all_qualifications,
                   race_standings, retryVars, pagedVars, batchVars, yearVars, auxVars>>

\* get_ergast_api_data.fetch_race_results: the rows are used up; return
\* the list of frames.
ErgastResultsReturn ==
    /\ op = "get_ergast_api_data.fetch_race_results"
    /\ lpc = "loop"
    /\ row > Len(race_rows)
    /\ lpc' = "returned"
    /\ UNCHANGED <<op, race_rows, row, rowResp, all_top10_standings,
                   all_qualifications, race_standings, race_dfs, lerr,
                   retryVars, pagedVars, batchVars, yearVars, auxVars>>

NextErgastResults ==
    \/ \E a \in ErgastResultsResponses : ErgastResultsRow(a)
    \/ ErgastResultsReturn

----------------------------------------------------------------------------
(* fetch_race_info with parse_race_data, and their older twins             *)
(* get_ergast_api_data.get_race_data with parse_race_response: one request *)
(* per year                                                                *)

\* Bound: the races in one year's answer.
MaxRaces == 2

\* CURRENT_YEAR = int(datetime.datetime.now().year), at a fixed day.
CURRENT_YEAR == 2022

\* The start_year arguments drawn for get_race_data.
StartYears == {2020, 2021, 2022}

\* range(lo, hi) as a sequence.
PyRange(lo, hi) == [k \in 1..Max(0, hi - lo) |-> lo + k - 1]

\* The season and the round of a race as upstream sends them: strings.
SeasonString(y) ==
    CASE y = 2020 -> "2020"
      [] y = 2021 -> "2021"
      [] y = 2022 -> "2022"
      [] OTHER    -> "2023"

RoundString(r) ==
    CASE r = 1 -> "1"
      [] r = 2 -> "2"
      [] OTHER -> "3"

\* A function without one of its keys.
Without(f, k) == [x \in (DOMAIN f) \ {k} |-> f[x]]

\* A race object of a year's answer with every key the parsers read.
FullRace(y, r) ==
    [season   |-> SeasonString(y),
     round    |-> RoundString(r),
     raceName |-> "Grand Prix",
     date     |-> "03-28",
     time     |-> "15:00:00Z",
     Circuit  |-> [circuitId   |-> "bahrain",
                   circuitName |-> "BIC",
                   Location    |-> [locality |-> "Sakhir",
                                    country  |-> "Bahrain",
                                    long     |-> "50.51",
                                    lat      |-> "26.03"]]]

\* The race objects drawn: complete, without "time", without "raceName",
\* without the "lat" of its circuit's location.
RawRaces(y, r) ==
    { FullRace(y, r),
      Without(FullRace(y, r), "time"),
      Without(FullRace(y, r), "raceName"),
      [FullRace(y, r) EXCEPT !.Circuit.Location = Without(@, "lat")] }

\* The keys read by subscript (race["..."]), a KeyError when absent.
RequiredRaceKeys == {"season", "round", "raceName", "date", "Circuit"}

RequiredCircuitKeys == {"circuitId", "circuitName", "Location"}

RequiredLocationKeys == {"locality", "country", "long", "lat"}

\* Whether building the dict of lines 67-79 raises a KeyError.
ParseRaises(race) ==
    ~ /\ RequiredRaceKeys \subseteq DOMAIN race
      /\ RequiredCircuitKeys \subseteq DOMAIN race.Circuit
      /\ RequiredLocationKeys \subseteq DOMAIN race.Circuit.Location

\* race.get("time", "N/A")
GetTime(race) == IF "time" \in DOMAIN race THEN race.time ELSE "N/A"

\* parse_race_data, for a race it does not raise on.
parse_race_data(race) ==
    [season    |-> race.season,
     round     |-> race.round,
     raceName  |-> race.raceName,
     date      |-> race.date,
     time      |-> GetTime(race),
     circuitId |-> race.Circuit.circuitId,
     circuit   |-> race.Circuit.circuitName,
     location  |-> race.Circuit.Location.locality,
     country   |-> race.Circuit.Location.country,
     long      |-> race.Circuit.Location.long,
     lat       |-> race.Circuit.Location.lat]

\* parse_race_response: the same dict for every race of the answer.
parse_race_response(races) == [j \in DOMAIN races |-> parse_race_data(races[j])]

\* The Races lists drawn for year y: rounds 1, 2, ... in order.
RacesLists(y) ==
    UNION {{rs \in [1..n -> UNION {RawRaces(y, r) : r \in 1..n}] :
               \A r \in 1..n : rs[r] \in RawRaces(y, r)} : n \in 0..MaxRaces}

\* What can come back for the request of year y.
YearAnswers(y) ==
    {[kind |-> "ok", races |-> rs] : rs \in RacesLists(y)}
        \cup {[kind |-> f, races |-> <<>>] :
                 f \in {"http_error", "conn_error", "timeout", "bad_json",
                        "missing_key"}}

\* The exception the evaluation for one year raises, "none" if none: from
\* safe_request / make_request, from the lookups under MRData, from the
\* parsing of a race.
YearError(a) ==
    IF safe_request(a.kind) # "none" THEN safe_request(a.kind)
    ELSE IF a.kind = "missing_key" THEN "KeyError"
    ELSE IF \E j \in DOMAIN a.races : ParseRaises(a.races[j]) THEN "KeyError"
    ELSE "none"

StartYears_fetch_race_info ==
    /\ ypc = "loop"
    /\ \E yr \in YearRanges : years = PyRange(yr[1], yr[2] + 1)
    /\ ynext = 1
    /\ yearResp = <<>>
    /\ all_races = <<>>
    /\ yerr = "none"

StartYears_get_race_data ==
    /\ ypc = "loop"
    /\ \E start_year \in StartYears : years = PyRange(start_year, CURRENT_YEAR)
    /\ ynext = 1
    /\ yearResp = <<>>
    /\ all_races = <<>>
    /\ yerr = "none"

IdleYears ==
    /\ ypc = "idle"
    /\ years = <<>>
    /\ ynext = 0
    /\ yearResp = <<>>
    /\ all_races = <<>>
    /\ yerr = "none"

\* The request of the year at hand and the parsing of its races. Neither
\* function has a try: an exception ends the call.
FetchYear(a) ==
    /\ op \in {"fetch_race_info", "get_race_data"}
    /\ ypc = "loop"
    /\ ynext <= Len(years)
    /\ yearResp' = Append(yearResp, a)
    /\ LET e == YearError(a)
       IN  IF e = "none"
           THEN /\ all_races' = all_races \o
                      (IF op = "fetch_race_info"
                       THEN [j \in DOMAIN a.races |-> parse_race_data(a.races[j])]
                       ELSE parse_race_response(a.races))
                /\ ynext' = ynext + 1
                /\ UNCHANGED <<ypc, yerr>>
           ELSE /\ ypc' = "raised"
                /\ yerr' = e
                /\ UNCHANGED <<ynext, all_races>>
    /\ UNCHANGED <<op, years, retryVars, pagedVars, batchVars, rowVars, auxVars>>

\* The years are used up: return pd.DataFrame(all_races).
ReturnRaces ==
    /\ op \in {"fetch_race_info", "get_race_data"}
    /\ ypc = "loop"
    /\ ynext > Len(years)
    /\ ypc' = "returned"
    /\ UNCHANGED <<op, years, ynext, yearResp, all_races, yerr,
                   retryVars, pagedVars, batchVars, rowVars, auxVars>>

\* The answers the request of the year at hand can get (none once the
\* years are used up or the call has ended).
AnswersDue ==
    IF ypc = "loop" /\ ynext \in DOMAIN years THEN YearAnswers(years[ynext]) ELSE {}

NextYears ==
    \/ \E a \in AnswersDue : FetchYear(a)
    \/ ReturnRaces

----------------------------------------------------------------------------
(* Claims about the retrying fetch, checked under SpecRetry                *)

AttemptsMade == Len(attemptAt)

CallEnded == rpc \in {"returned", "raised"}

LastWasTransient == outcome.kind = "exception" /\ outcome.val \in TransientErrors

\* C1: a call makes at most 5 attempts, never a 6th; when every attempt
\* failed with a transient error, exactly 5 were made and the call has
\* ended in failure.
C1_AtMostFiveAttempts ==
    /\ AttemptsMade <= 5
    /\ (rpc = "sleep" => AttemptsMade < 5)
    /\ (CallEnded /\ LastWasTransient => AttemptsMade = 5 /\ rpc = "raised")

C1_Witness ==
    /\ rpc = "raised"
    /\ LastWasTransient
    /\ AttemptsMade = 5
    /\ Len(latency) = 5

\* C2: an attempt that fails with anything but a transient server error
\* ends the call at once: the call has raised exactly that error, at the
\* very time the attempt failed (no wait), and the failed attempt is the
\* last one (one attempt more than the waits slept before it).
C2_OtherErrorsPropagateAtOnce ==
    (outcome.kind = "exception" /\ outcome.val \notin TransientErrors)
        => /\ rpc = "raised"
           /\ surfaced = outcome
           /\ AttemptsMade = Len(latency)
           /\ AttemptsMade = Len(slept) + 1
           /\ now = Last(attemptAt) + Last(latency)
           /\ (slept = <<>> => AttemptsMade = 1)

C2_Witness ==
    /\ rpc = "raised"
    /\ outcome = Raised("KeyError")
    /\ surfaced = outcome
    /\ AttemptsMade = 1

\* C3 (as claimed): when all 5 attempts fail with a transient error, the
\* caller gets the 5th attempt's transient error itself, not a wrapper.
C3_SurfacesLastTransientError ==
    (rpc = "raised" /\ AttemptsMade = 5 /\ LastWasTransient)
        => surfaced.val = outcome.val

\* C10 (as claimed): after 4 transient errors and a success the call
\* returns the 5th attempt's result, and the 5th attempt starts between 4
\* and 30 seconds after the 2nd.
C10_FifthAttemptWithin30s ==
    (rpc = "returned" /\ AttemptsMade = 5)
        => /\ surfaced = outcome
           /\ attemptAt[5] - attemptAt[2] >= 4
           /\ attemptAt[5] - attemptAt[2] <= 30

\* C10 (amended): the call returns the 5th attempt's result; the 5th
\* attempt starts at least 4 seconds after the 2nd, the waits between them
\* add up to at most 30 seconds, and so it starts no later than 30 seconds
\* plus the time the requests of attempts 2 to 4 themselves took.
C10_FifthAttemptBackoffBounds ==
    (rpc = "returned" /\ AttemptsMade = 5)
        => /\ surfaced = outcome
           /\ surfaced.kind = "result"
           /\ attemptAt[5] - attemptAt[2] >= 4
           /\ slept[2] + slept[3] + slept[4] <= 30
           /\ attemptAt[5] - attemptAt[2]
                 <= 30 + latency[2] + latency[3] + latency[4]

C10_Witness ==
    /\ rpc = "returned"
    /\ AttemptsMade = 5
    /\ surfaced = Result("Results")
    /\ latency[2] + latency[3] + latency[4] > 0

----------------------------------------------------------------------------
(* Claims about fetch_paginated_data, checked under SpecPaged              *)

\* The server's items from position `from` on, up to (not including)
\* position `upto`.
ItemsBetween(from, upto) ==
    [j \in 1..Max(0, Min(upto, total) - from) |-> from + j]

ReturnedWithoutFailure ==
    ppc = "returned" /\ pageFailure = "none" /\ limit >= 1

C5_NeverRaisesPastBoundary ==
    pageFailure # "none"
        => /\ ppc = "returned"
           /\ perr = "none"
           /\ all_data = ItemsBetween(startOffset, offset)

\* The page failures the fetch layer counts as transient server errors:
\* HTTP 503 and a dropped connection.
TransientPageFailures == {"http_503", "conn_error"}

\* How many page requests were issued for offset o.
RequestsAt(o) == Cardinality({k \in DOMAIN requestedAt : requestedAt[k] = o})

\* C11 (as claimed): a page request goes through the bounded retry: when
\* the pagination has stopped on a transient server error (HTTP 503 or a
\* dropped connection), the page at that offset was requested 5 times, so
\* one transient failure alone never truncates the result.
C11_TransientPageFailureRetried ==
    (pageFailure \in TransientPageFailures /\ limit >= 1)
        => RequestsAt(offset) = MAX_ATTEMPTS

\* C12 (as claimed): for every starting offset, every limit (0 included)
\* and every total the call issues finitely many requests and then ends:
\* there is never more than one request per item still to fetch (and at
\* least one), and once that many were issued the call has ended.
C12_FinitelyManyRequests ==
    /\ requests <= Max(1, total - startOffset)
    /\ (requests = Max(1, total - startOffset) => ppc # "loop")

----------------------------------------------------------------------------
(* Claims about one fetch attempt, checked under SpecAttempt               *)

\* The exceptions of the fetch layer that are plain, non-retryable request
\* failures: what raise_for_status, the connection or the JSON parser of
\* aiohttp and of requests raise, timeouts included.
ClientErrors ==
    RequestExceptions \cup
        {"aiohttp.ClientResponseError", "aiohttp.ClientError", "JSONDecodeError",
         "asyncio.TimeoutError"}

\* C13 (as claimed): an attempt answered by HTTP 503 or cut by a dropped
\* connection ends in a transient (retry-eligible) error, one answered by
\* another error status or a malformed JSON body ends in a non-retryable
\* client error, and an attempt ends in no other kind of error; for
\* fetch_single_race_results and for safe_request alike.
C13_ErrorClassification ==
    /\ outcome.kind = "exception" =>
          /\ (response \in {"http_503", "server_disconnected"}
                  => outcome.val \in TransientErrors)
          /\ (response \in {"http_error", "bad_json"}
                  => outcome.val \in ClientErrors \ TransientErrors)
          /\ outcome.val \in TransientErrors \cup ClientErrors
    /\ pageFailure \in PageResponses =>
          /\ (pageFailure \in TransientPageFailures
                  => safe_request(pageFailure) \in TransientErrors)
          /\ (pageFailure \in {"http_error", "bad_json"}
                  => safe_request(pageFailure) \in ClientErrors \ TransientErrors)
          /\ safe_request(pageFailure) \in
                  {"none"} \cup TransientErrors \cup ClientErrors

----------------------------------------------------------------------------
(* Claims about fetch_race_results, checked under SpecBatch                *)

\* The tasks whose request has been started and that have not completed,
\* those sleeping between two retries included, and those asyncio.gather
\* has scheduled.
InFlight == {k \in 1..NumTasks : tstate[k] \in {"scheduled", "attempt", "sleep"}}

\* The number of the batch task k belongs to (0, 1, ...).
BatchOf(k) == (k - 1) \div batch_size

Started(k) == tstate[k] \in {"attempt", "sleep", "done"}

\* C6: at any time at most batch_size requests are started and not yet
\* completed.
C6_BoundedConcurrency ==
    bpc # "idle" => Cardinality(InFlight) <= batch_size

C6_Witness ==
    /\ bpc = "gather"
    /\ batch_size = 2
    /\ Cardinality(InFlight) = 2
    /\ \E k \in 1..NumTasks : tstate[k] = "sleep"
    /\ \E k \in 1..NumTasks : tstate[k] = "created"

\* C7: a request of a later batch is started only when every request of
\* each earlier batch has completed and the 5 seconds of throttling after
\* that batch have passed.
C7_BatchesInOrder ==
    bpc # "idle" =>
        \A k, j \in 1..NumTasks :
            (BatchOf(k) < BatchOf(j) /\ tstate[j] # "created")
                => /\ tstate[k] = "done"
                   /\ (Started(j) => startedAt[j] >= doneAt[k] + 5)

C7_Witness ==
    /\ bpc = "gather"
    /\ batch_size = 2
    /\ NumTasks >= 4
    /\ tout[1].val = "tenacity.RetryError"
    /\ tout[2].kind = "result"
    /\ tstate[3] = "attempt"
    /\ tstate[4] = "scheduled"
    /\ startedAt[3] = 5

\* C8 (as claimed): the call returns one outcome per request, the data or
\* the captured error, so as many outcomes as requests.
C8_OneOutcomePerRequest ==
    bpc = "returned" => Len(all_results) = NumTasks

----------------------------------------------------------------------------
(* Claims about the per-item fetches, checked under SpecIsolation          *)

Range(f) == {f[x] : x \in DOMAIN f}

RowsEnded == lpc \in {"returned", "raised"}

\* The table a per-row operation hands back.
RowsOutput ==
    IF op = "fetch_all_driver_standings" THEN race_standings ELSE all_qualifications

\* C9 (as claimed): in the batched and the per-row fetches a failed request
\* or a response lacking a key keeps no other (season, round) from being
\* requested, and the data of every item that did not fail is in the
\* output.
C9_FailureIsolation ==
    /\ bpc = "returned" =>
          \A k \in 1..NumTasks :
              /\ Started(k)
              /\ (tout[k].kind = "result" => k \in Range(all_results))
    /\ RowsEnded =>
          /\ Len(rowResp) = Len(race_rows)
          /\ \A r \in 1..Len(rowResp) :
                RowError(rowResp[r]) = "none" =>
                    \A e \in 1..rowResp[r].n :
                        [row |-> r, entry |-> e] \in Range(RowsOutput)

----------------------------------------------------------------------------
(* Claims about the standings flattening, checked under SpecRows           *)

\* The entries of the DriverStandings lists collected, added up.
RECURSIVE SumEntries(_)
SumEntries(lists) ==
    IF lists = <<>> THEN 0 ELSE Head(lists).n + SumEntries(Tail(lists))

StandingsEnded == op = "fetch_all_driver_standings" /\ RowsEnded

\* C18 (as claimed): the flattened standings have as many rows as the
\* DriverStandings lists of the fetched StandingsLists have entries in
\* all, a StandingsList with an empty list adding none (whenever a
\* StandingsList was fetched at all).
C18_ExplodeRowCount ==
    (StandingsEnded /\ all_top10_standings # <<>>)
        => /\ lpc = "returned"
           /\ Len(race_standings) = SumEntries(all_top10_standings)

\* C19 (as claimed): one StandingsList with 2 DriverStandings entries
\* flattens to exactly 2 rows, with the fields of the Driver and of the
\* constructor as columns and without the columns DriverStandings, Driver,
\* Constructors and StandingsList.
C19_StandingsEndToEnd ==
    (StandingsEnded /\ rowResp = <<[kind |-> "ok", n |-> 2, bad |-> 0]>>)
        => /\ lpc = "returned"
           /\ Len(race_standings) = 2
           /\ {"driverId", "constructorId", "name"} \subseteq ColumnsAfterDrop
           /\ ColumnsAfterDrop \cap DroppedColumns = {}

----------------------------------------------------------------------------
(* Claims about fetch_all_qualifiers, checked under SpecRows               *)

\* The rows of all_qualifications that come from row r of race_data_df.
QualifyingRowsOf(r) ==
    {j \in DOMAIN all_qualifications : all_qualifications[j].row = r}

\* C16 (as claimed): when an entry of a round's QualifyingResults lacks an
\* expected key, at whatever position of the list, the output has no row
\* at all of that (season, round); a round whose entries are all complete
\* has every one of its rows.
C16_SchemaMismatchSkipsItem ==
    op = "fetch_all_qualifiers" =>
        \A r \in DOMAIN rowResp :
            /\ (rowResp[r].kind = "ok" /\ rowResp[r].bad # 0)
                    => QualifyingRowsOf(r) = {}
            /\ (rowResp[r].kind = "ok" /\ rowResp[r].bad = 0)
                    => Cardinality(QualifyingRowsOf(r)) = rowResp[r].n

----------------------------------------------------------------------------
(* Claims about the race-results and qualifying fetchers, checked under    *)
(* Spec                                                                    *)

\* The rows the per-row operation at hand has put out for row r.
RowsOutFor(r) ==
    IF op = "get_ergast_api_data.fetch_race_results"
    THEN {j \in DOMAIN race_dfs : race_dfs[j].row = r}
    ELSE {j \in DOMAIN all_qualifications : all_qualifications[j].row = r}

\* C14 (as claimed): every record the race-results fetch produced for a
\* (season, round) with a non-empty upstream result has the fields season
\* and round, equal to the season and round requested; in the batched
\* fetch of f1_data_fetcher and in get_ergast_api_data.fetch_race_results.
C14_SeasonRoundCarried ==
    /\ \A j \in DOMAIN all_results :
          tout[all_results[j]] = Result("Results")
              => {"season", "round"} \subseteq ResultsFrameColumns
    /\ \A j \in DOMAIN race_dfs :
          /\ {"season", "round"} \subseteq ErgastFrameColumns
          /\ race_dfs[j].season = race_rows[race_dfs[j].row].season
          /\ race_dfs[j].round = race_rows[race_dfs[j].row].round

\* C15 (as claimed): a successful answer with an empty Races list gives
\* zero rows for its round and no error, and the fetcher goes on with the
\* remaining rounds; in fetch_single_race_results, fetch_all_qualifiers and
\* get_ergast_api_data.fetch_race_results.
C15_MissingRoundTolerated ==
    /\ response = "no_races"
          => rpc = "returned" /\ surfaced = Result("EmptyFrame")
    /\ op \in {"fetch_all_qualifiers", "get_ergast_api_data.fetch_race_results"}
          => \A r \in DOMAIN rowResp :
                rowResp[r].kind = "no_races"
                    => /\ lpc # "raised"
                       /\ row > r
                       /\ RowsOutFor(r) = {}

----------------------------------------------------------------------------
(* Claims about the per-season race fetch and the race parser, checked     *)
(* under SpecYears                                                         *)

YearsEnded == ypc \in {"returned", "raised"}

\* The race objects of the answers received, in order.
RECURSIVE RacesReceived(_)
RacesReceived(resps) ==
    IF resps = <<>> THEN <<>>
    ELSE Head(resps).races \o RacesReceived(Tail(resps))

\* Every race received has the keys the parser reads by subscript.
AllRacesParse ==
    \A j \in DOMAIN RacesReceived(yearResp) : ~ParseRaises(RacesReceived(yearResp)[j])

\* C17 (as claimed): when the request of a year fails, fetch_race_info and
\* get_race_data still request the remaining years and return the races
\* of every year whose request succeeded.
C17_BestEffortPerYear ==
    (YearsEnded /\ AllRacesParse)
        => /\ ypc = "returned"
           /\ Len(yearResp) = Len(years)
           /\ all_races = parse_race_response(RacesReceived(yearResp))

\* The value of key k of object f, the sentinel when the key is absent.
ValueOrSentinel(f, k) == IF k \in DOMAIN f THEN f[k] ELSE "N/A"

\* The record of a race with every field copied and the sentinel in the
\* place of every absent one.
WithSentinels(race) ==
    LET circuit  == IF "Circuit" \in DOMAIN race THEN race.Circuit ELSE <<>>
        location == IF "Location" \in DOMAIN circuit THEN circuit.Location ELSE <<>>
    IN  [season    |-> ValueOrSentinel(race, "season"),
         round     |-> ValueOrSentinel(race, "round"),
         raceName  |-> ValueOrSentinel(race, "raceName"),
         date      |-> ValueOrSentinel(race, "date"),
         time      |-> ValueOrSentinel(race, "time"),
         circuitId |-> ValueOrSentinel(circuit, "circuitId"),
         circuit   |-> ValueOrSentinel(circuit, "circuitName"),
         location  |-> ValueOrSentinel(location, "locality"),
         country   |-> ValueOrSentinel(location, "country"),
         long      |-> ValueOrSentinel(location, "long"),
         lat       |-> ValueOrSentinel(location, "lat")]

\* C20 (as claimed): every race record received is parsed to a record with
\* season, round, raceName, date and the circuit fields copied unchanged
\* and time set to "N/A" when the key is absent; a race lacking an
\* expected key gets the sentinel for that field, the parsing does not
\* fail.
C20_SentinelForMissingKeys ==
    (\A y \in DOMAIN yearResp : yearResp[y].kind = "ok")
        => /\ ypc # "raised"
           /\ all_races = [j \in DOMAIN RacesReceived(yearResp) |->
                              WithSentinels(RacesReceived(yearResp)[j])]

----------------------------------------------------------------------------
(* utilities.expand_json_cols and utilities.safe_literal_eval              *)

\* Bound: the most rows of a frame.
MaxTableRows == 2

\* The frames drawn have one plain column and two columns of JSON-like
\* strings, as the standings and results files have.
TableColumns == {"position", "Driver", "Constructor"}

JsonColumns == {"Driver", "Constructor"}

SubKeys == {"id", "name"}

\* A cell of a JSON-like column, as far as the code tells cells apart:
\* whether it is a str, and what ast.literal_eval makes of its text: a dict
\* with some keys, or an exception. "{'id': " is a SyntaxError, "{id: 1}" a
\* ValueError (a name is not a literal) and "{[1]: 2}" a TypeError (the
\* key is an unhashable list).
Cells ==
    {[str |-> TRUE, parse |-> "dict", keys |-> ks] : ks \in SUBSET SubKeys}
        \cup {[str |-> TRUE, parse |-> e, keys |-> {}] :
                e \in {"SyntaxError", "ValueError", "TypeError"}}
        \cup {[str |-> FALSE, parse |-> "dict", keys |-> {"id"}]}

Unparsable(cell) == cell.str /\ cell.parse # "dict"

literal_eval(cell) ==
    IF cell.parse = "dict" THEN Result(cell.keys) ELSE Raised(cell.parse)

\* utilities.py:37-45. A value that is no str is returned as it is; the
\* handler is "except (ValueError, SyntaxError)".
SafeLiteralEvalCatches == {"ValueError", "SyntaxError"}

safe_literal_eval(cell) ==
    IF ~cell.str THEN Result(cell.keys)
    ELSE IF literal_eval(cell).kind = "exception"
            /\ literal_eval(cell).val \in SafeLiteralEvalCatches
         THEN Result({})
         ELSE literal_eval(cell)

\* f"{col}_{sub_col}"
ExpandedName(col, sub_col) == col \o "_" \o sub_col

\* df[col].apply(safe_literal_eval): the exception of the first cell that
\* raises, "none" when no cell does.
ColumnApplyError(frame, col) ==
    IF \E r \in DOMAIN frame : safe_literal_eval(frame[r][col]).kind = "exception"
    THEN LET r == CHOOSE r \in DOMAIN frame :
                    /\ safe_literal_eval(frame[r][col]).kind = "exception"
                    /\ \A q \in DOMAIN frame :
                          safe_literal_eval(frame[q][col]).kind = "exception" => r <= q
         IN safe_literal_eval(frame[r][col]).val
    ELSE "none"

\* .apply(pd.Series) and the renaming: one column per key found in any row.
ExpandedColumns(frame, col) ==
    {ExpandedName(col, k) :
        k \in UNION {safe_literal_eval(frame[r][col]).val : r \in DOMAIN frame}}

JsonColsArguments == {<<"Driver">>, <<"Driver", "Constructor">>}

StartExpand ==
    /\ upc = "loop"
    /\ df \in UNION {[1..n -> [JsonColumns -> Cells]] : n \in 1..MaxTableRows}
    /\ json_cols \in JsonColsArguments
    /\ jnext = 1
    \* other_cols = df.drop(columns=json_cols)
    /\ other_cols = TableColumns \ {json_cols[j] : j \in DOMAIN json_cols}
    /\ out_rows = Len(df)
    /\ id_columns = <<>>
    /\ race_id = <<>>
    /\ uerr = NoOutcome

IdleTable ==
    /\ upc = "idle"
    /\ df = <<>>
    /\ json_cols = <<>>
    /\ jnext = 0
    /\ other_cols = {}
    /\ out_rows = 0
    /\ id_columns = <<>>
    /\ race_id = <<>>
    /\ uerr = NoOutcome


\* One turn of "for col in json_cols" inside the try: any exception is
\* re-raised as ValueError ("raise ValueError(...) from e").
ExpandColumn ==
    /\ op = "expand_json_cols"
    /\ upc = "loop"
    /\ jnext \in DOMAIN json_cols
    /\ LET col == json_cols[jnext]
           e == ColumnApplyError(df, col)
       IN IF e # "none"
          THEN /\ upc' = "raised"
               /\ uerr' = RaisedFrom("ValueError", e)
               /\ UNCHANGED <<jnext, other_cols>>
          ELSE /\ other_cols' = other_cols \cup ExpandedColumns(df, col)
               /\ jnext' = jnext + 1
               /\ UNCHANGED <<upc, uerr>>
    /\ UNCHANGED <<op, df, json_cols, out_rows, id_columns, race_id,
                   notTable>>

ExpandReturns ==
    /\ op = "expand_json_cols"
    /\ upc = "loop"
    /\ jnext = Len(json_cols) + 1
    /\ upc' = "returned"
    /\ UNCHANGED <<op, df, json_cols, jnext, other_cols, out_rows, id_columns,
                   race_id, uerr, notTable>>

NextExpand == ExpandColumn \/ ExpandReturns

\* The keys of the cells of a column that parse.
ParsedKeys(frame, col) ==
    UNION {frame[r][col].keys : r \in {q \in DOMAIN frame : ~Unparsable(frame[q][col])}}

ExpectedColumns ==
    (TableColumns \ {json_cols[j] : j \in DOMAIN json_cols})
        \cup UNION {{ExpandedName(json_cols[j], k) : k \in ParsedKeys(df, json_cols[j])} :
                        j \in DOMAIN json_cols}

\* C21: expand_json_cols never raises because of a cell that cannot be
\* parsed: such a cell counts as an empty object; when it returns, the named
\* columns are gone, every key of a parsed cell is a column {column}_{key},
\* the other columns are kept and the number of rows is that of the input.
C21_UnparsableCellsTolerated ==
    op = "expand_json_cols" =>
        /\ upc # "raised"
        /\ upc = "returned" =>
              /\ other_cols = ExpectedColumns
              /\ out_rows = Len(df)

----------------------------------------------------------------------------
(* utilities.load_and_process_csv                                          *)

\* The columns of the files read, and the values drawn for their cells.
CsvColumns == {"season", "round", "position"}

CsvValues(col) ==
    CASE col = "season" -> {2021, 2022}
      [] col = "round" -> {1, 12}
      [] OTHER -> {1, 2}

CsvRows == {rw \in [CsvColumns -> {1, 2, 12, 2021, 2022}] :
                \A col \in CsvColumns : rw[col] \in CsvValues(col)}

\* The id_columns arguments drawn: one, two and three key fields.
IdColumnsArguments ==
    {<<"season">>, <<"season", "round">>, <<"round", "season">>,
     <<"season", "round", "position">>}

Digit(d) ==
    CASE d = 0 -> "0" [] d = 1 -> "1" [] d = 2 -> "2" [] d = 3 -> "3"
      [] d = 4 -> "4" [] d = 5 -> "5" [] d = 6 -> "6" [] d = 7 -> "7"
      [] d = 8 -> "8" [] d = 9 -> "9"

\* .astype(str) of a non-negative integer cell: its decimal digits.
RECURSIVE astype_str(_)
astype_str(n) ==
    IF n < 10 THEN Digit(n) ELSE astype_str(n \div 10) \o Digit(n % 10)

\* df[id_columns[0]].astype(str) + "_" + df[id_columns[1]].astype(str)
RaceIdOf(rw, ids) == astype_str(rw[ids[1]]) \o "_" \o astype_str(rw[ids[2]])

StartLoad ==
    /\ upc = "called"
    /\ df \in UNION {[1..n -> CsvRows] : n \in 0..MaxTableRows}
    /\ id_columns \in IdColumnsArguments
    /\ json_cols = <<>>
    /\ jnext = 0
    /\ other_cols = {}
    /\ out_rows = Len(df)
    /\ race_id = <<>>
    /\ uerr = NoOutcome

\* The whole call, with rename_columns and fill_na_value left at None:
\* id_columns[1] of a one-element list is an IndexError; remove_unnamed_col
\* leaves race_id alone.
LoadAndProcessCsv ==
    /\ op = "load_and_process_csv"
    /\ upc = "called"
    /\ IF Len(id_columns) < 2
       THEN /\ upc' = "raised"
            /\ uerr' = Raised("IndexError")
            /\ UNCHANGED race_id
       ELSE /\ upc' = "returned"
            /\ race_id' = [r \in DOMAIN df |-> RaceIdOf(df[r], id_columns)]
            /\ UNCHANGED uerr
    /\ UNCHANGED <<op, df, json_cols, jnext, other_cols, out_rows, id_columns,
                   notTable>>

\* The named key fields of a row, each as a string, joined by "_" in order.
RECURSIVE JoinedKeys(_, _)
JoinedKeys(rw, ids) ==
    IF Len(ids) = 1 THEN astype_str(rw[ids[1]])
    ELSE JoinedKeys(rw, SubSeq(ids, 1, Len(ids) - 1))
            \o "_" \o astype_str(rw[ids[Len(ids)]])

\* C22: load_and_process_csv gives every row a race_id that is the named
\* key fields (any number of them, at least one) joined by underscores, in
\* the order given.
C22_RaceIdJoinsAllKeys ==
    op = "load_and_process_csv" =>
        /\ upc # "raised"
        /\ upc = "returned" =>
              /\ DOMAIN race_id = DOMAIN df
              /\ \A r \in DOMAIN df : race_id[r] = JoinedKeys(df[r], id_columns)

----------------------------------------------------------------------------
(* The request URLs                                                        *)

BASE_URL == "http://ergast.com/api/f1"

\* The call sites that build a request URL of the Ergast API.
SeasonSites ==
    {"f1_data_fetcher.fetch_race_info", "get_ergast_api_data.get_race_data"}

RaceSites ==
    {"f1_data_fetcher.fetch_single_race_results",
     "f1_data_fetcher.fetch_all_driver_standings",
     "f1_data_fetcher.fetch_all_qualifiers",
     "get_ergast_api_data.fetch_race_results"}

PagedSite == "f1_data_fetcher.fetch_paginated_data"

ErgastPagedSites ==
    {"get_ergast_api_data.fetch_all_f1_drivers",
     "get_ergast_api_data.fetch_all_f1_circuits"}

UrlSites == SeasonSites \cup RaceSites \cup {PagedSite} \cup ErgastPagedSites

UrlSeasons == {2020, 2021, 2022}

UrlRounds == {1, 12, 22}

UrlLimits == {1, 30, 100}

UrlOffsets == {0, 30, 60}

\* get_ergast_api_data.construct_url, its arguments formatted as f-strings
\* format them; an empty endpoint or additional_params adds nothing.
construct_url(year, ep, additional_params) ==
    BASE_URL \o "/" \o astype_str(year)
        \o (IF ep # "" THEN "/" \o ep ELSE "")
        \o (IF additional_params # "" THEN "/" \o additional_params ELSE "")
        \o ".json"

\* f'limit={limit}&offset={offset}'
PageQuery(l, o) == "limit=" \o astype_str(l) \o "&offset=" \o astype_str(o)

\* The URL every call site builds from its arguments.
BuiltUrl(st, s, r, ep, l, o) ==
    CASE st = "f1_data_fetcher.fetch_race_info" ->
            BASE_URL \o "/" \o astype_str(s) \o ".json"
      [] st = "f1_data_fetcher.fetch_single_race_results" ->
            BASE_URL \o "/" \o astype_str(s) \o "/" \o astype_str(r) \o "/results.json"
      [] st = "f1_data_fetcher.fetch_all_driver_standings" ->
            BASE_URL \o "/" \o astype_str(s) \o "/" \o astype_str(r)
                \o "/driverStandings.json"
      [] st = "f1_data_fetcher.fetch_all_qualifiers" ->
            BASE_URL \o "/" \o astype_str(s) \o "/" \o astype_str(r)
                \o "/qualifying.json"
      [] st = "f1_data_fetcher.fetch_paginated_data" ->
            BASE_URL \o "/" \o ep \o ".json?" \o PageQuery(l, o)
      [] st = "get_ergast_api_data.get_race_data" -> construct_url(s, "", "")
      [] st = "get_ergast_api_data.fetch_race_results" ->
            construct_url(s, "results", astype_str(r))
      [] st = "get_ergast_api_data.fetch_all_f1_drivers" ->
            construct_url(0, "drivers?" \o PageQuery(l, o), "")
      [] st = "get_ergast_api_data.fetch_all_f1_circuits" ->
            construct_url(0, "circuits", "?" \o PageQuery(l, o))

StartUrl ==
    /\ site \in UrlSites
    /\ u_season \in (IF site \in SeasonSites \cup RaceSites THEN UrlSeasons ELSE {0})
    /\ u_round \in (IF site \in RaceSites THEN UrlRounds ELSE {0})
    /\ u_endpoint \in (IF site = PagedSite THEN Endpoints ELSE {""})
    \* the two old fetchers have limit = 30 and offset = page * limit
    /\ u_limit \in (IF site = PagedSite THEN UrlLimits
                    ELSE IF site \in ErgastPagedSites THEN {30} ELSE {0})
    /\ u_offset \in (IF site \in {PagedSite} \cup ErgastPagedSites
                     THEN UrlOffsets ELSE {0})
    /\ url = ""

IdleUrl ==
    /\ site = "none"
    /\ u_season = 0
    /\ u_round = 0
    /\ u_endpoint = ""
    /\ u_limit = 0
    /\ u_offset = 0
    /\ url = ""


BuildUrl ==
    /\ op = "build_url"
    /\ url = ""
    /\ url' = BuiltUrl(site, u_season, u_round, u_endpoint, u_limit, u_offset)
    /\ UNCHANGED <<op, site, u_season, u_round, u_endpoint, u_limit, u_offset,
                   notUrl>>

\* The template the interface names for the request a call site makes.
TemplateUrl ==
    LET s == astype_str(u_season)
        r == astype_str(u_round)
        q == "?limit=" \o astype_str(u_limit) \o "&offset=" \o astype_str(u_offset)
    IN CASE site \in SeasonSites -> BASE_URL \o "/" \o s \o ".json"
         [] site \in {"f1_data_fetcher.fetch_single_race_results",
                      "get_ergast_api_data.fetch_race_results"} ->
                BASE_URL \o "/" \o s \o "/" \o r \o "/results.json"
         [] site = "f1_data_fetcher.fetch_all_qualifiers" ->
                BASE_URL \o "/" \o s \o "/" \o r \o "/qualifying.json"
         [] site = "f1_data_fetcher.fetch_all_driver_standings" ->
                BASE_URL \o "/" \o s \o "/" \o r \o "/driverStandings.json"
         [] site = PagedSite -> BASE_URL \o "/" \o u_endpoint \o ".json" \o q
         [] site = "get_ergast_api_data.fetch_all_f1_drivers" ->
                BASE_URL \o "/drivers.json" \o q
         [] site = "get_ergast_api_data.fetch_all_f1_circuits" ->
                BASE_URL \o "/circuits.json" \o q

\* C23: every request URL built by the fetchers is its template's: season
\* races {base}/{season}.json, race results, qualifying and standings
\* {base}/{season}/{round}/<what>.json, paginated lists
\* {base}/<endpoint>.json?limit=L&offset=O.
C23_UrlsMatchTemplates ==
    (op = "build_url" /\ url # "") => url = TemplateUrl

----------------------------------------------------------------------------
(* get_ergast_api_data.fetch_all_f1_drivers / fetch_all_f1_circuits        *)

\* limit = 30 (get_ergast_api_data.py:174, 209); it is also the default
\* limit of f1_data_fetcher.fetch_all_f1_drivers / fetch_all_f1_circuits.
ERGAST_LIMIT == 30

\* The numbers of items drawn for the server: none, less than a page, a full
\* page, and more than one and two pages.
ServerTotals == {0, 1, 30, 31, 61}

\* What can happen to one requests.get(url) of these loops, which passes no
\* timeout.
ErgastPageResponses ==
    { "ok",           \* 200, JSON page
      "http_error",   \* a status other than 200
      "conn_error",   \* requests.get raises ConnectionError
      "bad_json",     \* 200, body is not JSON: response.json() raises
      "no_answer" }   \* the server accepts the connection and never answers

\* The timeout requests.get is given at lines 178 and 213: none (0), so a
\* request the server never answers never ends.
ErgastPagedTimeout == 0

\* Lines 184 and 219: whether the body holds the keys the items are read
\* from (a KeyError otherwise).
ErgastKeysFound(sch, ep) ==
    /\ ServerTableKey(sch, ep) = ErgastTableKey(ep)
    /\ ServerListKey(sch, ep) = ErgastListKey(ep)

StartErgastPaged ==
    /\ epc = "loop"
    /\ e_endpoint \in Endpoints
    /\ e_schema \in Schemas
    /\ e_total \in ServerTotals
    /\ page = 0
    /\ e_all = <<>>
    /\ e_requests = 0
    /\ e_failure = "none"
    /\ e_err = "none"

IdleErgastPaged ==
    /\ epc = "idle"
    /\ e_endpoint = "none"
    /\ e_schema = "none"
    /\ e_total = 0
    /\ page = 0
    /\ e_all = <<>>
    /\ e_requests = 0
    /\ e_failure = "none"
    /\ e_err = "none"


\* One turn of "while True": request the page, break on a status other
\* than 200, on a KeyError and on an empty page, else extend and go on.
\* requests.get and response.json() are outside the try.
ErgastFetchPage(resp) ==
    /\ epc = "loop"
    /\ e_requests' = e_requests + 1
    /\ e_failure' = IF resp = "ok" THEN e_failure ELSE resp
    /\ LET items == PageItems(e_total, page * ERGAST_LIMIT, ERGAST_LIMIT)
       IN CASE resp = "no_answer" ->
                 /\ epc' = IF ErgastPagedTimeout = 0 THEN "hung" ELSE "raised"
                 /\ e_err' = IF ErgastPagedTimeout = 0 THEN "none" ELSE "requests.Timeout"
                 /\ UNCHANGED <<page, e_all>>
            [] resp = "conn_error" ->
                 /\ epc' = "raised"
                 /\ e_err' = "requests.ConnectionError"
                 /\ UNCHANGED <<page, e_all>>
            [] resp = "bad_json" ->
                 /\ epc' = "raised"
                 /\ e_err' = "requests.JSONDecodeError"
                 /\ UNCHANGED <<page, e_all>>
            [] resp = "http_error" ->
                 /\ epc' = "returned"
                 /\ UNCHANGED <<page, e_all, e_err>>
            [] resp = "ok" ->
                 IF ~ErgastKeysFound(e_schema, e_endpoint) \/ items = <<>>
                 THEN /\ epc' = "returned"
                      /\ UNCHANGED <<page, e_all, e_err>>
                 ELSE /\ e_all' = e_all \o items
                      /\ page' = page + 1
                      /\ UNCHANGED <<epc, e_err>>
    /\ UNCHANGED <<op, e_endpoint, e_schema, e_total, pagedVars, notErg>>

NextErgastPaged == \E resp \in ErgastPageResponses : ErgastFetchPage(resp)

\* C24: every fetch eventually returns or raises even when the server never
\* answers a request, because every request carries a fixed timeout: no
\* call is left waiting for ever on one request.
C24_NoCallWaitsForEver == epc # "hung"

----------------------------------------------------------------------------
(* The waits of the retrying fetch                                         *)

\* The waits chosen so far: those slept, and the one being slept.
WaitsChosen ==
    IF rpc = "sleep" THEN Append(slept, upcoming_sleep) ELSE slept

\* C25: the wait before each retry of fetch_single_race_results (the 1st to
\* the 4th) is at least 4 s and at most 30 s, the first wait is 4 s, and
\* the waits never decrease from one retry to the next.
C25_WaitsBoundedAndMonotone ==
    op = "fetch_single_race_results" =>
        /\ Len(WaitsChosen) <= 4
        /\ \A k \in DOMAIN WaitsChosen :
              /\ WaitsChosen[k] >= 4
              /\ WaitsChosen[k] <= 30
              /\ k = 1 => WaitsChosen[k] = 4
              /\ k > 1 => WaitsChosen[k - 1] <= WaitsChosen[k]

\* All four waits were slept and the fifth attempt has ended.
C25_Witness ==
    /\ op = "fetch_single_race_results"
    /\ rpc \in {"returned", "raised"}
    /\ Len(slept) = 4
    /\ slept[4] > slept[1]

----------------------------------------------------------------------------
(* The years get_race_data requests                                        *)

\* C26: get_race_data(start_year) requests every year from start_year to
\* the current year inclusive, once each and in increasing order: when it
\* returns, one request was made per year of the range, the years follow
\* one another, and the last year requested is the current year.
C26_RequestsUpToCurrentYear ==
    (op = "get_race_data" /\ ypc = "returned") =>
        /\ Len(yearResp) = Len(years)
        /\ \A j \in 1..(Len(years) - 1) : years[j + 1] = years[j] + 1
        /\ years # <<>>
        /\ Last(years) = CURRENT_YEAR

----------------------------------------------------------------------------
(* get_wiki_circuits, fetch_wiki_circuits, parse_wiki_html_to_dataframe    *)

\* What the page holds, as far as the parser tells pages apart: the table
\* captioned "Formula One circuits", no such caption, a caption outside any
\* table, a table whose rows do not fit its headers (pd.DataFrame raises),
\* or an empty body.
WikiPages == {"table", "no_caption", "no_table", "ragged_rows", "empty"}

\* What can happen to requests.get(url, timeout=timeout).
WikiResponses == {"ok", "http_error", "conn_error", "timeout"}

\* Whether to_csv(local_file) can write: the default path is relative
\* ("../data/wiki_circuits.csv"), and to_csv raises OSError if its
\* directory does not exist or cannot be written.
WikiDisks == {"writable", "unwritable"}

\* The local file as the call finds it: none, one pd.read_csv reads, one it
\* cannot parse.
WikiLocalFiles == {"absent", "readable", "corrupt"}

\* fetch_wiki_circuits: response.text, None on any RequestException.
fetch_wiki_circuits(resp, pg) == IF resp = "ok" THEN pg ELSE "None"

\* "if html_content := ...": None and the empty string are falsy.
Truthy(html) == html \notin {"None", "empty"}

\* parse_wiki_html_to_dataframe: every exception is caught and gives None.
parse_wiki_html_to_dataframe(html) == IF html = "table" THEN "frame" ELSE "None"

StartWiki ==
    /\ wpc = "fetch"
    /\ w_page \in WikiPages
    /\ w_disk \in WikiDisks
    /\ w_local \in WikiLocalFiles
    /\ w_written = FALSE
    /\ html_content = "unset"
    /\ wiki_circuits = "unset"
    /\ w_result = "unset"
    /\ w_err = "none"

IdleWiki ==
    /\ wpc = "idle"
    /\ w_page = "none"
    /\ w_disk = "none"
    /\ w_local = "none"
    /\ w_written = FALSE
    /\ html_content = "unset"
    /\ wiki_circuits = "unset"
    /\ w_result = "unset"
    /\ w_err = "none"


\* Line 376: the fetch and the test of its result.
WikiFetch(resp) ==
    /\ op = "get_wiki_circuits"
    /\ wpc = "fetch"
    /\ html_content' = fetch_wiki_circuits(resp, w_page)
    /\ wpc' = IF Truthy(html_content') THEN "parse" ELSE "local"
    /\ UNCHANGED <<op, w_page, w_disk, w_local, w_written, wiki_circuits,
                   w_result, w_err, notWiki>>

\* Lines 377-378: the parse and the test of its result.
WikiParse ==
    /\ op = "get_wiki_circuits"
    /\ wpc = "parse"
    /\ wiki_circuits' = parse_wiki_html_to_dataframe(html_content)
    /\ wpc' = IF wiki_circuits' # "None" THEN "save" ELSE "local"
    /\ UNCHANGED <<op, w_page, w_disk, w_local, w_written, html_content,
                   w_result, w_err, notWiki>>

\* Lines 379-381: to_csv is outside any try.
WikiSave ==
    /\ op = "get_wiki_circuits"
    /\ wpc = "save"
    /\ IF w_disk = "writable"
       THEN /\ w_written' = TRUE
            /\ w_result' = "fetched"
            /\ wpc' = "returned"
            /\ UNCHANGED w_err
       ELSE /\ wpc' = "raised"
            /\ w_err' = "OSError"
            /\ UNCHANGED <<w_written, w_result>>
    /\ UNCHANGED <<op, w_page, w_disk, w_local, html_content, wiki_circuits,
                   notWiki>>

\* Lines 383-390: pd.read_csv(local_file), None on any exception.
WikiLoadLocal ==
    /\ op = "get_wiki_circuits"
    /\ wpc = "local"
    /\ w_result' = IF w_local = "readable" THEN "local" ELSE "None"
    /\ wpc' = "returned"
    /\ UNCHANGED <<op, w_page, w_disk, w_local, w_written, html_content,
                   wiki_circuits, w_err, notWiki>>

NextWiki ==
    \/ \E resp \in WikiResponses : WikiFetch(resp)
    \/ WikiParse
    \/ WikiSave
    \/ WikiLoadLocal

\* The fetch / parse path failed: nothing usable was fetched, or what was
\* fetched did not parse.
WikiPathFailed ==
    \/ html_content \in {"None", "empty"}
    \/ wiki_circuits = "None"

\* C27: get_wiki_circuits falls back to the local file when the fetch fails
\* or the page cannot be parsed, and returns what the file holds; its
\* result is None only when both the fetch / parse path and the local load
\* fail; the local file is written only after a successful fetch and
\* parse; and the call never raises.
C27_LocalFileFallback ==
    op = "get_wiki_circuits" =>
        /\ wpc # "raised"
        /\ (wpc = "returned" /\ WikiPathFailed) =>
              w_result = (IF w_local = "readable" THEN "local" ELSE "None")
        /\ (wpc = "returned" /\ w_result = "None") =>
              (WikiPathFailed /\ w_local # "readable")
        /\ w_written => (Truthy(html_content) /\ wiki_circuits = "frame")

----------------------------------------------------------------------------
(* get_weather_api_data.fetch_historic_weather                             *)

\* Bound: the most rows of the race information file.
MaxWeatherRows == 3

\* The rows of the race information file, as pd.read_csv reads them: the
\* date is a str "YYYY-MM-DD" (parse_race_data stores the API's date).
CsvDates == {"2021-03-28", "2022-03-20"}

CsvLocations == {<<"26.0325", "50.5106">>, <<"21.6319", "39.1044">>}

RawRaceRows ==
    {[date |-> [type |-> "str", text |-> d], lat |-> l[1], long |-> l[2]] :
        d \in CsvDates, l \in CsvLocations}

\* pd.to_datetime on the date column: every str becomes a Timestamp.
to_datetime(v) == [type |-> "Timestamp", text |-> v.text]

\* utilities.format_race_data, on one row: the columns kept and the date
\* converted.
format_race_data(rw) ==
    [date |-> to_datetime(rw.date), lat |-> rw.lat, long |-> rw.long]

\* datetime.datetime.strptime(date_str, "%Y-%m-%d"): TypeError for an
\* argument that is no str, ValueError for a str of another format.
strptime(v) ==
    IF v.type # "str" THEN Raised("TypeError")
    ELSE IF v.text \in CsvDates THEN Result(v.text)
    ELSE Raised("ValueError")

\* is_valid_date: only ValueError is caught.
is_valid_date(v) ==
    IF strptime(v).kind = "result" THEN Result(TRUE)
    ELSE IF strptime(v).val = "ValueError" THEN Result(FALSE)
    ELSE strptime(v)

\* get_weather_api_data.construct_url: the exception it raises, "none" if
\* it returns the URL.
weather_construct_url_error(v) ==
    IF is_valid_date(v).kind = "exception" THEN is_valid_date(v).val
    ELSE IF is_valid_date(v).val THEN "none"
    ELSE "ValueError"

\* What make_request can get for one request (it returns {} on any httpx
\* error).
WeatherResponses == {"forecast", "no_forecast", "http_error", "timeout"}

StartWeather ==
    /\ xpc = "loop"
    /\ \E n \in 0..MaxWeatherRows :
          \E raw \in [1..n -> RawRaceRows] :
              race_df = [r \in 1..n |-> format_race_data(raw[r])]
    /\ wrow = 1
    /\ weather_requests = <<>>
    /\ weather_infos = <<>>
    /\ x_caught = <<>>

IdleWeather ==
    /\ xpc = "idle"
    /\ race_df = <<>>
    /\ wrow = 0
    /\ weather_requests = <<>>
    /\ weather_infos = <<>>
    /\ x_caught = <<>>


\* One turn of the loop over race_df.iterrows(): the URL is built and the
\* request made inside "try ... except Exception", which logs and goes on.
WeatherRow(resp) ==
    /\ op = "fetch_historic_weather"
    /\ xpc = "loop"
    /\ wrow \in DOMAIN race_df
    /\ LET rw == race_df[wrow]
           e == weather_construct_url_error(rw.date)
       IN IF e # "none"
          THEN /\ x_caught' = Append(x_caught, e)
               /\ UNCHANGED <<weather_requests, weather_infos>>
          ELSE /\ x_caught' = Append(x_caught, "none")
               /\ weather_requests' =
                     Append(weather_requests, <<rw.lat, rw.long, rw.date.text>>)
               /\ weather_infos' = IF resp = "forecast"
                                   THEN Append(weather_infos, wrow)
                                   ELSE weather_infos
    /\ wrow' = wrow + 1
    /\ UNCHANGED <<op, xpc, race_df, notWeather>>

\* Lines 119-121: the merge and the return.
WeatherReturn ==
    /\ op = "fetch_historic_weather"
    /\ xpc = "loop"
    /\ wrow = Len(race_df) + 1
    /\ xpc' = "returned"
    /\ UNCHANGED <<op, race_df, wrow, weather_requests, weather_infos, x_caught,
                   notWeather>>

NextWeather ==
    \/ \E resp \in WeatherResponses : WeatherRow(resp)
    \/ WeatherReturn

\* C28: fetch_historic_weather calls the weather API once per race row of
\* format_race_data: when it returns, exactly one request was issued for
\* every row, keyed by that row's (latitude, longitude, date).
C28_OneWeatherRequestPerRace ==
    (op = "fetch_historic_weather" /\ xpc = "returned") =>
        /\ Len(weather_requests) = Len(race_df)
        /\ \A r \in DOMAIN race_df :
              weather_requests[r] = <<race_df[r].lat, race_df[r].long, race_df[r].date.text>>

----------------------------------------------------------------------------
(* The two paginated implementations against one server                    *)

\* f1_data_fetcher.fetch_all_f1_drivers() / fetch_all_f1_circuits() with
\* their default offset and limit, which are those of the loops of
\* get_ergast_api_data, and the latter run against the same server.
StartBothPaged ==
    /\ ppc = "loop"
    /\ endpoint \in Endpoints
    /\ schema \in Schemas
    /\ total \in ServerTotals
    /\ startOffset = 0
    /\ offset = startOffset
    /\ limit = ERGAST_LIMIT
    /\ all_data = <<>>
    /\ requests = 0
    /\ requestedAt = <<>>
    /\ pageFailure = "none"
    /\ perr = "none"
    /\ StartErgastPaged
    /\ e_endpoint = endpoint
    /\ e_schema = schema
    /\ e_total = total

BothEnded ==
    /\ ppc \in {"returned", "raised"}
    /\ epc \in {"returned", "raised", "hung"}

\* Every request of both calls was answered with a page.
ServerNeverFailed ==
    /\ pageFailure \in {"none", "missing_key"}
    /\ e_failure = "none"

\* C29: the two implementations of the paginated driver / circuit fetch
\* read a page's items from the same place, so on the same server that
\* never fails both return, and return the same sequence of items.
C29_SameItemSequence ==
    (op = "fetch_paginated_data" /\ epc # "idle" /\ BothEnded /\ ServerNeverFailed) =>
        /\ ppc = "returned"
        /\ epc = "returned"
        /\ all_data = e_all

----------------------------------------------------------------------------
(* The rounds fetch_race_results requests, against the seasons' calendars  *)

\* The seasons of the year ranges drawn.
SeasonsDrawn == {2021, 2022}

\* How many rounds a season can have, next to the number the comprehension
\* of lines 139-143 requests: fewer (1995 had 17), as many, more (2021 had
\* 22).
CalendarSizes == {LastRound - 1, LastRound, LastRound + 1}

StartCalendar == rounds_held \in [SeasonsDrawn -> CalendarSizes]

IdleCalendar == rounds_held = <<>>

IdleAux ==
    /\ IdleTable
    /\ IdleUrl
    /\ IdleErgastPaged
    /\ IdleWiki
    /\ IdleWeather
    /\ IdleCalendar

\* The seasons of range(start_year, end_year + 1).
SeasonsInRange == {tasks[k].season : k \in DOMAIN tasks}

\* The tasks created for a (season, round) whose request was issued.
TasksIssuedFor(s, r) ==
    {k \in DOMAIN tasks : tasks[k] = [season |-> s, round |-> r] /\ Started(k)}

\* C30: fetch_race_results requests the results of every race of every
\* season in range: once it has returned, for every season of the range and
\* every round that season has, however many these are, exactly one task
\* was created and issued.
C30_OneTaskPerRaceHeld ==
    (op = "fetch_race_results" /\ rounds_held # <<>> /\ bpc = "returned") =>
        \A s \in SeasonsInRange :
            \A r \in 1..rounds_held[s] : Cardinality(TasksIssuedFor(s, r)) = 1

----------------------------------------------------------------------------
(* The specifications                                                      *)

InitRetry ==
    /\ op = "fetch_single_race_results"
    /\ StartRetry
    /\ IdlePaged
    /\ IdleBatch
    /\ IdleRows
    /\ IdleYears
    /\ IdleAux

SpecRetry == InitRetry /\ [][NextRetry]_vars

InitPaged ==
    /\ op = "fetch_paginated_data"
    /\ IdleRetry
    /\ StartPaged
    /\ IdleBatch
    /\ IdleRows
    /\ IdleYears
    /\ IdleAux

SpecPaged == InitPaged /\ [][NextPaged]_vars

InitBatch ==
    /\ op = "fetch_race_results"
    /\ IdleRetry
    /\ IdlePaged
    /\ StartBatch
    /\ IdleRows
    /\ IdleYears
    /\ IdleAux

SpecBatch == InitBatch /\ [][NextBatch]_vars

InitRows ==
    /\ op \in {"fetch_all_driver_standings", "fetch_all_qualifiers"}
    /\ IdleRetry
    /\ IdlePaged
    /\ IdleBatch
    /\ StartRows
    /\ IdleYears
    /\ IdleAux

SpecRows == InitRows /\ [][NextRows]_vars

\* The two single fetches: an attempt of fetch_single_race_results and a
\* page request through safe_request.
InitAttempt == InitRetry \/ InitPaged

NextAttempt == NextRetry \/ NextPaged

SpecAttempt == InitAttempt /\ [][NextAttempt]_vars

\* The operations that fetch one item per (season, round).
InitIsolation == InitBatch \/ InitRows

NextIsolation == NextBatch \/ NextRows

SpecIsolation == InitIsolation /\ [][NextIsolation]_vars

InitErgastResults ==
    /\ op = "get_ergast_api_data.fetch_race_results"
    /\ IdleRetry
    /\ IdlePaged
    /\ IdleBatch
    /\ StartRows
    /\ IdleYears
    /\ IdleAux

InitYears ==
    /\ \/ op = "fetch_race_info" /\ StartYears_fetch_race_info
       \/ op = "get_race_data" /\ StartYears_get_race_data
    /\ IdleRetry
    /\ IdlePaged
    /\ IdleBatch
    /\ IdleRows
    /\ IdleAux

SpecYears == InitYears /\ [][NextYears]_vars

InitTable ==
    /\ \/ op = "expand_json_cols" /\ StartExpand
       \/ op = "load_and_process_csv" /\ StartLoad
    /\ IdleRetry
    /\ IdlePaged
    /\ IdleBatch
    /\ IdleRows
    /\ IdleYears
    /\ IdleUrl
    /\ IdleErgastPaged
    /\ IdleWiki
    /\ IdleWeather
    /\ IdleCalendar

NextTable == NextExpand \/ LoadAndProcessCsv

SpecTable == InitTable /\ [][NextTable]_vars

InitUrl ==
    /\ op = "build_url"
    /\ StartUrl
    /\ IdleTable
    /\ IdleErgastPaged
    /\ IdleRetry
    /\ IdlePaged
    /\ IdleBatch
    /\ IdleRows
    /\ IdleYears
    /\ IdleWiki
    /\ IdleWeather
    /\ IdleCalendar

SpecUrl == InitUrl /\ [][BuildUrl]_vars

InitErgastPaged ==
    /\ op = "get_ergast_api_data.fetch_all"
    /\ StartErgastPaged
    /\ IdleTable
    /\ IdleUrl
    /\ IdleRetry
    /\ IdlePaged
    /\ IdleBatch
    /\ IdleRows
    /\ IdleYears
    /\ IdleWiki
    /\ IdleWeather
    /\ IdleCalendar

SpecErgastPaged == InitErgastPaged /\ [][NextErgastPaged]_vars

InitWiki ==
    /\ op = "get_wiki_circuits"
    /\ StartWiki
    /\ IdleTable
    /\ IdleUrl
    /\ IdleErgastPaged
    /\ IdleRetry
    /\ IdlePaged
    /\ IdleBatch
    /\ IdleRows
    /\ IdleYears
    /\ IdleWeather
    /\ IdleCalendar

SpecWiki == InitWiki /\ [][NextWiki]_vars

InitWeather ==
    /\ op = "fetch_historic_weather"
    /\ StartWeather
    /\ IdleTable
    /\ IdleUrl
    /\ IdleErgastPaged
    /\ IdleWiki
    /\ IdleRetry
    /\ IdlePaged
    /\ IdleBatch
    /\ IdleRows
    /\ IdleYears
    /\ IdleCalendar

SpecWeather == InitWeather /\ [][NextWeather]_vars

InitBothPaged ==
    /\ op = "fetch_paginated_data"
    /\ StartBothPaged
    /\ IdleTable
    /\ IdleUrl
    /\ IdleWiki
    /\ IdleWeather
    /\ IdleRetry
    /\ IdleBatch
    /\ IdleRows
    /\ IdleYears
    /\ IdleCalendar

NextBothPaged == NextPaged \/ NextErgastPaged

SpecBothPaged == InitBothPaged /\ [][NextBothPaged]_vars

InitBatchCalendar ==
    /\ op = "fetch_race_results"
    /\ StartBatch
    /\ StartCalendar
    /\ IdleTable
    /\ IdleUrl
    /\ IdleErgastPaged
    /\ IdleWiki
    /\ IdleWeather
    /\ IdleRetry
    /\ IdlePaged
    /\ IdleRows
    /\ IdleYears

SpecBatchCalendar == InitBatchCalendar /\ [][NextBatch]_vars

Init ==
    InitRetry \/ InitPaged \/ InitBatch \/ InitRows \/ InitErgastResults \/ InitYears

Next ==
    NextRetry \/ NextPaged \/ NextBatch \/ NextRows \/ NextErgastResults \/ NextYears

Spec == Init /\ [][Next]_vars

=============================================================================
